---- MODULE Spec2Model ----
(***************************************************************************)
(* Release assignment by end-date granularity (src/index.js, lines 1-768). *)
(*                                                                         *)
(* A JavaScript Date is modelled as [day, ms]: the number of whole days    *)
(* since 1970-01-01 (UTC) and the millisecond within that day, so that     *)
(* getTime() = day * MsPerDay + ms.  Dates are compared as the code        *)
(* compares them: by time value (DateLE) or by their YYYY-MM-DD key        *)
(* (toYMDUTC), which here is the triple <<year, month, date>> ordered      *)
(* lexicographically like the zero-padded string.                          *)
(***************************************************************************)
EXTENDS Integers, Sequences, FiniteSets, TLC

VARIABLES
  gen,        \* generator harness: a range and the periods generated for it
  probe,      \* matcher harness: the arguments and the result of one call
  RG_IDS,     \* configuration: group label -> release group id ("" when unset)
  storeCfg,   \* Release Store: accessibility of each group, time of day it reports
  catalog,    \* Release Store: group id -> the release records of the group
  seed,       \* the seed request in progress, or the last one answered
  prev,       \* what the seed request before this one did, per group
  faults,     \* number of calls the store has failed though the group is accessible
  links,      \* Release Store: the release ids the feature is linked to
  pass,       \* the reconciliation pass in progress, or the last one ended
  runs,       \* the overlapping runs (two passes or two seed requests), by number
  http        \* the HTTP front: the request being handled and the responses sent

genVars == <<gen>>
probeVars == <<probe>>
seedVars == <<RG_IDS, storeCfg, catalog, seed, prev, faults>>
reconVars == <<RG_IDS, storeCfg, catalog, faults, links, pass>>
vars == <<gen, probe, RG_IDS, storeCfg, catalog, seed, prev, faults, links, pass, runs, http>>
nonGenVars == <<probe, RG_IDS, storeCfg, catalog, seed, prev, faults, links, pass, runs, http>>
nonProbeVars == <<gen, RG_IDS, storeCfg, catalog, seed, prev, faults, links, pass, runs, http>>
nonSeedVars == <<gen, probe, links, pass, runs, http>>
nonReconVars == <<gen, probe, seed, prev, runs, http>>

(***************************************************************************)
(* Bounds of the generator harness.                                        *)
(***************************************************************************)
\* first rangeStart tried: 2023-12-25 as a day number
FirstStartDay == 19716
\* rangeStart takes the days FirstStartDay + k * StartStride, k < NumStarts
StartStride == 3
NumStarts == 150
\* rangeEnd is rangeStart plus k * SpanStride days, k <= MaxSpanSteps
SpanStride == 9
MaxSpanSteps == 12

(***************************************************************************)
(* Bounds of the matcher harness.                                          *)
(***************************************************************************)
\* first day of the window the probed dates are drawn from: 2024-12-30
ProbeFirstDay == 20087
\* longest release list handed to the matcher and to the existence test
MaxReleases == 2

(***************************************************************************)
(* Bounds of the seeding model.  The seeding horizons (one year, five      *)
(* years) are shortened to a number of days so that a request creates a    *)
(* handful of periods.                                                     *)
(***************************************************************************)
\* first "today" of a seed request: Saturday 2024-05-18
SeedFirstDay == 19861
\* a request comes on SeedFirstDay or SeedDayGap days later
SeedDayGap == 1
\* weekly, monthly and quarterly periods are seeded this many days ahead
HorizonDays == 2
\* yearly periods are seeded this many days ahead
YearlyHorizonDays == 230
\* createRelease calls the store fails although the group is accessible
MaxCreateFaults == 1

(***************************************************************************)
(* Bounds of the seeding-order harness.                                    *)
(***************************************************************************)
\* first day of the ranges whose periods are seeded: Monday 2024-12-23
OrderFirstDay == 20080
\* a range is this many days long; the second range starts where the first ends
OrderDays == 20

(***************************************************************************)
(* Bounds of the reconciliation model.                                     *)
(***************************************************************************)
\* the day the catalog of the reconciliation model starts: Sunday 2026-02-01
ReconFirstDay == 20485
\* the weekly group has the weeks of this many days from ReconFirstDay on
ReconWeeklyDays == 10
\* the other groups have the periods of this many days from ReconFirstDay on
ReconDays == 60
\* a feature ends this many days after ReconFirstDay (2026-02-03) ...
FirstEndOffset == 2
\* ... or this many (2026-03-31)
SecondEndOffset == 58
\* webhook deliveries processed in one behaviour
MaxPasses == 2
\* calls of the reconciler the store fails in one behaviour
MaxPassFaults == 2

(***************************************************************************)
(* Calendar arithmetic of the built-in Date (proleptic Gregorian, UTC).    *)
(***************************************************************************)
MsPerDay == 86400000

None == [absent |-> TRUE]

\* Date.UTC(y, m, d, ...) for a 0-based month m and a date d, both of which
\* may lie outside their usual range (month 12 is January of the next year,
\* date 0 the last day of the previous month).
DaysFromCivil(y, m0, d) ==
  LET yy  == y + (m0 \div 12)
      m   == (m0 % 12) + 1
      y1  == IF m <= 2 THEN yy - 1 ELSE yy
      era == y1 \div 400
      yoe == y1 - era * 400
      mp  == IF m > 2 THEN m - 3 ELSE m + 9
      doy == (153 * mp + 2) \div 5
      doe == yoe * 365 + (yoe \div 4) - (yoe \div 100) + doy
  IN  era * 146097 + doe - 719468 + (d - 1)

\* <<year, month (0-based), date>> of a day number
CivilFromDays(z) ==
  LET z1  == z + 719468
      era == z1 \div 146097
      doe == z1 - era * 146097
      yoe == (doe - (doe \div 1460) + (doe \div 36524) - (doe \div 146096)) \div 365
      doy == doe - (365 * yoe + (yoe \div 4) - (yoe \div 100))
      mp  == (5 * doy + 2) \div 153
      d   == doy - ((153 * mp + 2) \div 5) + 1
      m   == IF mp < 10 THEN mp + 3 ELSE mp - 9
      y   == yoe + era * 400 + (IF m <= 2 THEN 1 ELSE 0)
  IN  <<y, m - 1, d>>

getUTCFullYear(d) == CivilFromDays(d.day)[1]
getUTCMonth(d) == CivilFromDays(d.day)[2]
getUTCDate(d) == CivilFromDays(d.day)[3]
\* 0 = Sunday .. 6 = Saturday; 1970-01-01 was a Thursday
getUTCDay(d) == (d.day + 4) % 7

\* the comparison of two Dates by time value (<= on Date objects)
DateLE(a, b) == a.day < b.day \/ (a.day = b.day /\ a.ms <= b.ms)

startOfDayUTC(d) ==
  [day |-> DaysFromCivil(getUTCFullYear(d), getUTCMonth(d), getUTCDate(d)), ms |-> 0]

endOfDayUTC(d) ==
  [day |-> DaysFromCivil(getUTCFullYear(d), getUTCMonth(d), getUTCDate(d)),
   ms |-> MsPerDay - 1]

atUTC(y, m, d) == [day |-> DaysFromCivil(y, m, d), ms |-> 0]

\* setUTCDate(getUTCDate() + days): the time of day is kept
addDays(d, days) ==
  [day |-> DaysFromCivil(getUTCFullYear(d), getUTCMonth(d), getUTCDate(d) + days),
   ms |-> d.ms]

addMonths(d, months) ==
  [day |-> DaysFromCivil(getUTCFullYear(d), getUTCMonth(d) + months, 1), ms |-> 0]

(***************************************************************************)
(* Day keys.  new Date(undefined) is an invalid Date whose key is the       *)
(* string "NaN-NaN-NaN", which equals no key of a valid date and sorts      *)
(* after every key that starts with a digit; NaNKey stands for it.          *)
(***************************************************************************)
NaNKey == <<99999, 0, 0>>

\* mutant of toYMDUTC: the key of the local calendar date one hour east of UTC
toYMDUTC_LocalTime(x) ==
  IF x = None THEN NaNKey
  ELSE LET shifted == IF x.ms + 3600000 >= MsPerDay THEN x.day + 1 ELSE x.day
       IN  <<CivilFromDays(shifted)[1], CivilFromDays(shifted)[2] + 1,
             CivilFromDays(shifted)[3]>>

toYMDUTC(x) ==
  IF x = None THEN NaNKey
  ELSE <<getUTCFullYear(x), getUTCMonth(x) + 1, getUTCDate(x)>>

\* a <= b on two YYYY-MM-DD strings of valid dates
KeyLE(a, b) ==
  \/ a[1] < b[1]
  \/ a[1] = b[1] /\ a[2] < b[2]
  \/ a[1] = b[1] /\ a[2] = b[2] /\ a[3] <= b[3]


\* mutant of isWithinClosedDay: the end bound is exclusive
isWithinClosedDay_HalfOpen(d, start, end) ==
  IF start = None \/ end = None THEN FALSE
  ELSE KeyLE(toYMDUTC(start), toYMDUTC(d)) /\ KeyLE(toYMDUTC(d), toYMDUTC(end))
       /\ toYMDUTC(d) # toYMDUTC(end)

\* Closed interval on day granularity: start_ymd <= d_ymd <= end_ymd.
\* start and end are a release's timeframe bounds, None when the record has none.
isWithinClosedDay(d, start, end) ==
  IF start = None \/ end = None THEN FALSE
  ELSE LET dy == toYMDUTC(d)
           sy == toYMDUTC(start)
           ey == toYMDUTC(end)
       IN  KeyLE(sy, dy) /\ KeyLE(dy, ey)

\* mutant of releaseWithTimeframeExists: the bounds are compared as instants
releaseWithTimeframeExists_ExactTime(existingReleases, start, end) ==
  \E i \in 1..Len(existingReleases) :
    /\ existingReleases[i].start = start
    /\ existingReleases[i].end = end

\* mutant of releaseWithTimeframeExists: nothing is ever found
releaseWithTimeframeExists_Never(existingReleases, start, end) == FALSE

\* A release record as the code reads it: id, name, and the two ends of its
\* timeframe (timeframe.startDate || timeframe.start, likewise the end).
releaseWithTimeframeExists(existingReleases, start, end) ==
  LET s == toYMDUTC(start)
      e == toYMDUTC(end)
  IN  \E i \in 1..Len(existingReleases) :
        /\ toYMDUTC(existingReleases[i].start) = s
        /\ toYMDUTC(existingReleases[i].end) = e

\* releases.find(r => isWithinClosedDay(featureEnd, start of r, end of r)):
\* the index of the element found, 0 for undefined
RECURSIVE findFrom(_, _, _)
findFrom(featureEnd, releases, i) ==
  IF i > Len(releases) THEN 0
  ELSE IF isWithinClosedDay(featureEnd, releases[i].start, releases[i].end) THEN i
  ELSE findFrom(featureEnd, releases, i + 1)

\* mutant of findTarget: the last release containing the date is taken
RECURSIVE findLastFrom(_, _, _)
findLastFrom(featureEnd, releases, i) ==
  IF i < 1 THEN 0
  ELSE IF isWithinClosedDay(featureEnd, releases[i].start, releases[i].end) THEN i
  ELSE findLastFrom(featureEnd, releases, i - 1)

findTarget_Last(featureEnd, releases) == findLastFrom(featureEnd, releases, Len(releases))

\* mutant of findTarget: without a match the first release is taken
findTarget_OrFirst(featureEnd, releases) ==
  IF findFrom(featureEnd, releases, 1) = 0 /\ Len(releases) > 0 THEN 1
  ELSE findFrom(featureEnd, releases, 1)

findTarget(featureEnd, releases) == findFrom(featureEnd, releases, 1)

(***************************************************************************)
(* Period generators.  A period is [name, start, end]; a name is kept as   *)
(* the tuple of the values the template string prints.                     *)
(***************************************************************************)
RECURSIVE MonthlyLoop(_, _, _)
MonthlyLoop(cursor, last, periods) ==
  IF ~DateLE(cursor, last) THEN periods
  ELSE LET y == getUTCFullYear(cursor)
           m == getUTCMonth(cursor)
           start == startOfDayUTC(atUTC(y, m, 1))
           nextMonth == addMonths(cursor, 1)
           end == startOfDayUTC(addDays(nextMonth, -1))
           name == <<"month", getUTCMonth(start), y>>
       IN  MonthlyLoop(nextMonth, last,
                       Append(periods, [name |-> name, start |-> start, end |-> end]))

\* mutant of buildMonthlyPeriods: the month of rangeEnd is left out
buildMonthlyPeriods_ExclusiveEnd(rangeStart, rangeEnd) ==
  LET cursor == atUTC(getUTCFullYear(rangeStart), getUTCMonth(rangeStart), 1)
      last == atUTC(getUTCFullYear(rangeEnd), getUTCMonth(rangeEnd), 0)
  IN  MonthlyLoop(cursor, last, <<>>)

buildMonthlyPeriods(rangeStart, rangeEnd) ==
  LET cursor == atUTC(getUTCFullYear(rangeStart), getUTCMonth(rangeStart), 1)
      last == atUTC(getUTCFullYear(rangeEnd), getUTCMonth(rangeEnd), 1)
  IN  MonthlyLoop(cursor, last, <<>>)

\* mutant of weekNumOf: the first Monday of the month is week 0
weekNumOf_ZeroBased(monday, firstMonday) ==
  ((monday.day - firstMonday.day) * 24 + ((monday.ms - firstMonday.ms) \div 3600000))
     \div (7 * 24)

\* Math.floor((monday - firstMonday) / (7 * 24 * 3600 * 1000)) + 1, both
\* operands being UTC midnights
weekNumOf(monday, firstMonday) ==
  (((monday.day - firstMonday.day) * 24 + ((monday.ms - firstMonday.ms) \div 3600000))
     \div (7 * 24)) + 1

RECURSIVE WeeklyLoop(_, _, _)
WeeklyLoop(monday, endBoundary, periods) ==
  IF ~DateLE(monday, endBoundary) THEN periods
  ELSE LET sunday == startOfDayUTC(addDays(monday, 6))
           monthIdxMonday == getUTCMonth(monday)
           firstOfMonth == atUTC(getUTCFullYear(monday), monthIdxMonday, 1)
           firstMonthDay == getUTCDay(firstOfMonth)
           firstMondayDelta == IF firstMonthDay = 0 THEN 1
                               ELSE IF firstMonthDay <= 1 THEN 0
                               ELSE 8 - firstMonthDay
           firstMonday == startOfDayUTC(addDays(firstOfMonth, firstMondayDelta))
           weekNum == weekNumOf(monday, firstMonday)
           name == <<"week", getUTCMonth(monday), weekNum, getUTCFullYear(monday)>>
           pushed == Append(periods, [name |-> name, start |-> monday, end |-> sunday])
       IN  \* Len makes TLC evaluate the list at every iteration; left
           \* unevaluated, a year of weeks nests deeper than its stack
           IF Len(pushed) = 0 THEN pushed
           ELSE WeeklyLoop(startOfDayUTC(addDays(monday, 7)), endBoundary, pushed)

\* mutant of buildWeeklyPeriods: Sunday is not treated apart
buildWeeklyPeriods_NoSundayCase(rangeStart, rangeEnd) ==
  LET day == getUTCDay(rangeStart)
      deltaToMonday == 1 - day
      monday == startOfDayUTC(addDays(rangeStart, deltaToMonday))
      endBoundary == endOfDayUTC(rangeEnd)
  IN  WeeklyLoop(monday, endBoundary, <<>>)

buildWeeklyPeriods(rangeStart, rangeEnd) ==
  LET day == getUTCDay(rangeStart)
      deltaToMonday == IF day = 0 THEN -6 ELSE 1 - day
      monday == startOfDayUTC(addDays(rangeStart, deltaToMonday))
      endBoundary == endOfDayUTC(rangeEnd)
  IN  WeeklyLoop(monday, endBoundary, <<>>)

\* the remainder operator of JavaScript: the sign follows the dividend
JsRem(a, b) == IF a >= 0 THEN a % b ELSE -((-a) % b)

\* Math.max(1, Math.min(12, Number(anchorMonth1to12) || 1)) - 1
anchorOf(anchorMonth1to12) ==
  LET n == IF anchorMonth1to12 = 0 THEN 1 ELSE anchorMonth1to12
      lo == IF n < 12 THEN n ELSE 12
  IN  (IF lo > 1 THEN lo ELSE 1) - 1

\* mutant of quarterStartFor: the remainder is taken without adding 12 first
quarterStartFor_NoWrap(date, anchor) ==
  LET y == getUTCFullYear(date)
      m == getUTCMonth(date)
      offset == JsRem(m - anchor, 3)
      qStartMonth == m - offset
      qYear == y + (qStartMonth \div 12)
      qMonth == JsRem(qStartMonth + 12, 12)
  IN  atUTC(qYear, qMonth, 1)

quarterStartFor(date, anchor) ==
  LET y == getUTCFullYear(date)
      m == getUTCMonth(date)
      offset == JsRem(12 + (m - anchor), 3)
      qStartMonth == m - offset
      qYear == y + (qStartMonth \div 12)
      qMonth == JsRem(qStartMonth + 12, 12)
  IN  atUTC(qYear, qMonth, 1)

nextQuarterStart(date) ==
  atUTC(getUTCFullYear(date), getUTCMonth(date) + 3, 1)

RECURSIVE QuarterlyLoop(_, _, _, _)
QuarterlyLoop(qStart, boundary, anchor, periods) ==
  IF ~DateLE(qStart, boundary) THEN periods
  ELSE LET qEnd == startOfDayUTC(addDays(nextQuarterStart(qStart), -1))
           posWithinYear == JsRem(12 + (getUTCMonth(qStart) - anchor), 12)
           qIndex == (posWithinYear \div 3) + 1
           name == <<"Q", qIndex, getUTCFullYear(qStart)>>
       IN  QuarterlyLoop(nextQuarterStart(qStart), boundary, anchor,
                         Append(periods, [name |-> name, start |-> qStart, end |-> qEnd]))

buildQuarterlyPeriods(rangeStart, rangeEnd, anchorMonth1to12) ==
  LET anchor == anchorOf(anchorMonth1to12)
      qStart == quarterStartFor(rangeStart, anchor)
      boundary == atUTC(getUTCFullYear(rangeEnd), getUTCMonth(rangeEnd), 1)
  IN  QuarterlyLoop(qStart, boundary, anchor, <<>>)

RECURSIVE YearlyLoop(_, _, _)
YearlyLoop(year, lastYear, periods) ==
  IF ~(year <= lastYear) THEN periods
  ELSE LET start == startOfDayUTC(atUTC(year, 0, 1))
           end == startOfDayUTC(atUTC(year, 11, 31))
           name == <<"year", year>>
       IN  YearlyLoop(year + 1, lastYear,
                      Append(periods, [name |-> name, start |-> start, end |-> end]))

\* mutant of buildYearlyPeriods: the year of rangeEnd is left out
buildYearlyPeriods_ExclusiveEnd(rangeStart, rangeEnd) ==
  YearlyLoop(getUTCFullYear(rangeStart), getUTCFullYear(rangeEnd) - 1, <<>>)

buildYearlyPeriods(rangeStart, rangeEnd) ==
  YearlyLoop(getUTCFullYear(rangeStart), getUTCFullYear(rangeEnd), <<>>)


(***************************************************************************)
(* Generator harness: a range is drawn, then one generator is applied.     *)
(***************************************************************************)
\* the times of day the harnesses give a Date: midnight, noon, 23:59:59.999
TimesOfDay == {0, MsPerDay \div 2, MsPerDay - 1}

\* QUARTER_START_MONTH values tried (0 and 13 are clamped by the code)
AnchorMonths == 0..13

GenRanges ==
  {r \in [rangeStart : [day : {FirstStartDay + k * StartStride : k \in 0..(NumStarts - 1)},
                        ms : {0, MsPerDay - 1}],
          rangeEnd : [day : {FirstStartDay + k * StartStride + j * SpanStride :
                               k \in 0..(NumStarts - 1), j \in 0..MaxSpanSteps},
                      ms : {0, MsPerDay - 1}]] :
     /\ DateLE(r.rangeStart, r.rangeEnd)
     /\ (r.rangeEnd.day - r.rangeStart.day) % SpanStride = 0
     /\ (r.rangeEnd.day - r.rangeStart.day) \div SpanStride <= MaxSpanSteps}

probeIdle == [op |-> "idle"]

passIdle == [pc |-> "idle", n |-> 0]

httpIdle == [stage |-> "idle"]

\* the front's and the overlapping runs' variables where neither is modelled
FrontIdle ==
  /\ runs = <<>>
  /\ http = httpIdle

\* the reconciler's variables where no webhook is processed
ReconIdle ==
  /\ links = {}
  /\ pass = passIdle
  /\ FrontIdle

\* the service's and the store's variables in the harnesses, which do not use them
SeedIdle ==
  /\ RG_IDS = <<>>
  /\ storeCfg = <<>>
  /\ catalog = <<>>
  /\ seed = [pc |-> "idle"]
  /\ prev = <<>>
  /\ faults = 0
  /\ ReconIdle

\* ranges tried besides: January 2026, and one from January 2024 to March
\* 2025, which holds a February of 29 and one of 28 days
ExampleRanges ==
  { [rangeStart |-> [day |-> DaysFromCivil(2026, 0, 1), ms |-> t],
     rangeEnd |-> [day |-> DaysFromCivil(2026, 0, 31), ms |-> t]] : t \in {0, MsPerDay - 1} }
  \cup
  { [rangeStart |-> [day |-> DaysFromCivil(2024, 0, 15), ms |-> 0],
     rangeEnd |-> [day |-> DaysFromCivil(2025, 2, 10), ms |-> 0]] }

InitGen ==
  /\ probe = probeIdle
  /\ SeedIdle
  /\ gen \in {[kind |-> "none", rangeStart |-> r.rangeStart, rangeEnd |-> r.rangeEnd,
            anchor |-> 1, periods |-> <<>>] : r \in GenRanges \cup ExampleRanges}

GenWeekly ==
  /\ gen.kind = "none"
  /\ UNCHANGED nonGenVars
  /\ gen' = [gen EXCEPT !.kind = "weekly",
                        !.periods = buildWeeklyPeriods(gen.rangeStart, gen.rangeEnd)]

GenMonthly ==
  /\ gen.kind = "none"
  /\ UNCHANGED nonGenVars
  /\ gen' = [gen EXCEPT !.kind = "monthly",
                        !.periods = buildMonthlyPeriods(gen.rangeStart, gen.rangeEnd)]

GenQuarterly ==
  /\ gen.kind = "none"
  /\ UNCHANGED nonGenVars
  /\ \E a \in AnchorMonths :
       gen' = [gen EXCEPT !.kind = "quarterly", !.anchor = a,
                          !.periods = buildQuarterlyPeriods(gen.rangeStart, gen.rangeEnd, a)]

GenYearly ==
  /\ gen.kind = "none"
  /\ UNCHANGED nonGenVars
  /\ gen' = [gen EXCEPT !.kind = "yearly",
                        !.periods = buildYearlyPeriods(gen.rangeStart, gen.rangeEnd)]

NextGen == GenWeekly \/ GenMonthly \/ GenQuarterly \/ GenYearly

SpecGen == InitGen /\ [][NextGen]_vars

(***************************************************************************)
(* C4 - Continuity: for every range with rangeStart <= rangeEnd and each   *)
(* generator (quarterly with any anchor), the periods are ordered by       *)
(* start, each period after the first starts exactly one day after the     *)
(* previous period's end, the first period starts on or before rangeStart  *)
(* and the last period ends on or after rangeEnd (as calendar days).       *)
(***************************************************************************)
Contiguous(periods) ==
  \A i \in 1..(Len(periods) - 1) :
    /\ periods[i + 1].start = addDays(periods[i].end, 1)
    /\ DateLE(periods[i].start, periods[i + 1].start)
    /\ periods[i].start # periods[i + 1].start

Covers(periods, rangeStart, rangeEnd) ==
  /\ Len(periods) >= 1
  /\ DateLE(periods[1].start, rangeStart)
  /\ KeyLE(toYMDUTC(rangeEnd), toYMDUTC(periods[Len(periods)].end))
  /\ \A i \in 1..Len(periods) : DateLE(periods[i].start, periods[i].end)

C4_Continuity ==
  gen.kind # "none" =>
    /\ Contiguous(gen.periods)
    /\ Covers(gen.periods, gen.rangeStart, gen.rangeEnd)

C4_Witness ==
  /\ gen.kind = "quarterly"
  /\ gen.anchor = 8
  /\ Len(gen.periods) >= 3
  /\ getUTCFullYear(gen.periods[1].start) < getUTCFullYear(gen.rangeStart)


(***************************************************************************)
(* Matcher harness: the inputs of one call are drawn, then the call is     *)
(* applied.  The window of days straddles a month and a year boundary.     *)
(***************************************************************************)
ProbeDays == {ProbeFirstDay + k : k \in 0..3}
ListDays == {ProbeFirstDay + k : k \in 1..2}

ProbeDates == [day : ProbeDays, ms : TimesOfDay]

\* release records of the lists: a start at midnight or missing, an end at
\* midnight, at 23:59:59.999 or missing
ListReleases ==
  [start : [day : ListDays, ms : {0}] \cup {None},
   end : [day : ListDays, ms : {0, MsPerDay - 1}] \cup {None}]

RECURSIVE SeqsUpTo(_, _)
SeqsUpTo(S, n) ==
  IF n = 0 THEN {<<>>}
  ELSE LET shorter == SeqsUpTo(S, n - 1)
       IN  shorter \cup {Append(q, x) : q \in {t \in shorter : Len(t) = n - 1}, x \in S}

ReleaseLists == SeqsUpTo(ListReleases, MaxReleases)

WithinInputs ==
  [op : {"within"}, done : {FALSE}, d : ProbeDates,
   start : ProbeDates \cup {None}, end : ProbeDates \cup {None}, result : {FALSE}]

MatchInputs ==
  [op : {"match"}, done : {FALSE}, d : [day : ListDays, ms : {0, MsPerDay - 1}],
   releases : ReleaseLists, target : {0}]

ExistsInputs ==
  {x \in [op : {"exists"}, done : {FALSE}, start : [day : ListDays, ms : {0}],
          end : [day : ListDays, ms : {0, MsPerDay - 1}],
          releases : ReleaseLists, result : {FALSE}] :
     DateLE(x.start, x.end)}

InitProbe ==
  /\ gen = [kind |-> "idle"]
  /\ SeedIdle
  /\ probe \in WithinInputs \cup MatchInputs \cup ExistsInputs

ProbeWithin ==
  /\ probe.op = "within" /\ ~probe.done
  /\ probe' = [probe EXCEPT !.done = TRUE,
                 !.result = isWithinClosedDay(probe.d, probe.start, probe.end)]
  /\ UNCHANGED nonProbeVars

ProbeMatch ==
  /\ probe.op = "match" /\ ~probe.done
  /\ probe' = [probe EXCEPT !.done = TRUE,
                 !.target = findTarget(probe.d, probe.releases)]
  /\ UNCHANGED nonProbeVars

ProbeExists ==
  /\ probe.op = "exists" /\ ~probe.done
  /\ probe' = [probe EXCEPT !.done = TRUE,
                 !.result = releaseWithTimeframeExists(probe.releases, probe.start, probe.end)]
  /\ UNCHANGED nonProbeVars

NextProbe == ProbeWithin \/ ProbeMatch \/ ProbeExists

SpecProbe == InitProbe /\ [][NextProbe]_vars


(***************************************************************************)
(* C5 - Closed-interval matching: isWithinClosedDay(d, start, end) is true *)
(* exactly when day(start) <= day(d) <= day(end), whatever the times of    *)
(* day, so an end date on a period's first or last day matches it; it is   *)
(* false whenever start or end is absent.                                  *)
(***************************************************************************)
C5_ClosedInterval ==
  (probe.op = "within" /\ probe.done) =>
    probe.result = (/\ probe.start # None
                    /\ probe.end # None
                    /\ probe.start.day <= probe.d.day
                    /\ probe.d.day <= probe.end.day)

C5_Witness ==
  /\ probe.op = "within" /\ probe.done
  /\ probe.start # None /\ probe.end # None
  /\ probe.start.day < probe.end.day
  /\ probe.d.day = probe.end.day
  /\ probe.d.ms = MsPerDay - 1 /\ probe.end.ms = 0
  /\ probe.result = TRUE

(***************************************************************************)
(* C6 - Day-only semantics: the result of matching a feature end date to   *)
(* a release, and of the seeder's existence test, is the same for every    *)
(* time of day given to the feature end, to the releases' starts and ends  *)
(* and to the period's start and end.                                      *)
(***************************************************************************)
ReTime(x, t) == IF x = None THEN None ELSE [day |-> x.day, ms |-> t]

ReTimeList(releases, ts, te) ==
  [i \in 1..Len(releases) |->
     [start |-> ReTime(releases[i].start, ts), end |-> ReTime(releases[i].end, te)]]

C6_DayOnly ==
  (probe.op # "idle" /\ probe.done) =>
    \A t1 \in TimesOfDay, t2 \in TimesOfDay, t3 \in TimesOfDay :
      CASE probe.op = "within" ->
             isWithinClosedDay(ReTime(probe.d, t1), ReTime(probe.start, t2),
                               ReTime(probe.end, t3)) = probe.result
        [] probe.op = "match" ->
             findTarget(ReTime(probe.d, t1), ReTimeList(probe.releases, t2, t3))
               = probe.target
        [] probe.op = "exists" ->
             \A t4 \in TimesOfDay :
               releaseWithTimeframeExists(ReTimeList(probe.releases, t3, t4),
                                          ReTime(probe.start, t1), ReTime(probe.end, t2))
                 = probe.result

C6_Witness ==
  /\ probe.op = "exists" /\ probe.done
  /\ probe.result = TRUE
  /\ probe.end.ms = 0
  /\ \E i \in 1..Len(probe.releases) :
       /\ probe.releases[i].end # None /\ probe.releases[i].start # None
       /\ probe.releases[i].end.day = probe.end.day
       /\ probe.releases[i].start.day = probe.start.day
       /\ probe.releases[i].end.ms = MsPerDay - 1

(***************************************************************************)
(* C7 - Matcher order: the target is the first release, in the order       *)
(* supplied (sorted or not), whose closed day interval contains the end    *)
(* date; a release lacking a start or an end is never chosen; when no      *)
(* release contains the date the result is "no match".                     *)
(***************************************************************************)
ContainsDay(r, d) ==
  /\ r.start # None
  /\ r.end # None
  /\ r.start.day <= d.day
  /\ d.day <= r.end.day

C7_FirstMatch ==
  (probe.op = "match" /\ probe.done) =>
    LET hits == {i \in 1..Len(probe.releases) : ContainsDay(probe.releases[i], probe.d)}
    IN  IF hits = {} THEN probe.target = 0
        ELSE probe.target \in hits /\ \A j \in hits : probe.target <= j

C7_Witness ==
  /\ probe.op = "match" /\ probe.done
  /\ Len(probe.releases) = 2
  /\ ContainsDay(probe.releases[1], probe.d)
  /\ ContainsDay(probe.releases[2], probe.d)
  /\ probe.releases[2].start.day < probe.releases[1].start.day
  /\ probe.target = 1


(***************************************************************************)
(* The Release Store and the configuration.                                *)
(***************************************************************************)
\* mutant of GroupLabels: the yearly group is handled first
GroupLabels_YearlyFirst == <<"yearly", "weekly", "monthly", "quarterly">>

GroupLabels == <<"weekly", "monthly", "quarterly", "yearly">>
LabelSet == {GroupLabels[i] : i \in 1..Len(GroupLabels)}

\* process.env.QUARTER_START_MONTH || "1"
anchorMonthEnv == 1

\* the granularity label passed to createRelease
GranularityOf(label) ==
  CASE label = "weekly" -> "day"
    [] label = "monthly" -> "month"
    [] label = "quarterly" -> "quarter"
    [] label = "yearly" -> "year"

\* The answers of the store to POST /entities/search for a group: 404 for a
\* group it does not know, 403 for one the token may not read, otherwise the
\* records; any call may also fail with another status or a network error.
ListAnswers(groupId) ==
  {"err"} \cup (CASE storeCfg.avail[groupId] = "notfound" -> {"s404"}
                  [] storeCfg.avail[groupId] = "forbidden" -> {"s403"}
                  [] OTHER -> {"ok"})

\* mutant of listReleasesForGroupV2: 404 and 403 are errors like any other
listReleasesForGroupV2_Throw404(groupId, answer) ==
  IF groupId = "" THEN [kind |-> "value", value |-> <<>>]
  ELSE IF answer # "ok" THEN [kind |-> "throw", message |-> "POST /entities/search failed"]
  ELSE [kind |-> "value", value |-> catalog[groupId]]

\* mutant of listReleasesForGroupV2: the search is not restricted to the group
listReleasesForGroupV2_AllGroups(groupId, answer) ==
  IF groupId = "" THEN [kind |-> "value", value |-> <<>>]
  ELSE IF answer = "s404" THEN [kind |-> "value", value |-> <<>>]
  ELSE IF answer = "s403" THEN [kind |-> "value", value |-> <<>>]
  ELSE IF answer # "ok" THEN [kind |-> "throw", message |-> "POST /entities/search failed"]
  ELSE [kind |-> "value",
        value |-> catalog[GroupLabels[1]] \o catalog[GroupLabels[2]]
                  \o catalog[GroupLabels[3]] \o catalog[GroupLabels[4]]]

\* listReleasesForGroupV2: the value returned, or the error thrown
listReleasesForGroupV2(groupId, answer) ==
  IF groupId = "" THEN [kind |-> "value", value |-> <<>>]
  ELSE IF answer = "s404" THEN [kind |-> "value", value |-> <<>>]
  ELSE IF answer = "s403" THEN [kind |-> "value", value |-> <<>>]
  ELSE IF answer # "ok" THEN [kind |-> "throw", message |-> "POST /entities/search failed"]
  ELSE [kind |-> "value", value |-> catalog[groupId]]

listReleasesForGroup(groupId, answer) == listReleasesForGroupV2(groupId, answer)

\* The answers of the store to POST /entities: a group that is unknown or
\* closed to the token accepts no release; an accessible one may still fail.
CreateAnswers(groupId) ==
  IF storeCfg.avail[groupId] # "ok" THEN {"err"}
  ELSE {"ok"} \cup (IF faults < MaxCreateFaults THEN {"err"} ELSE {})

\* the record the store keeps for a created release: the days sent, at the
\* time of day the store reports
StoredRelease(groupId, name, start, end) ==
  [id |-> <<groupId, Len(catalog[groupId]) + 1>>, name |-> name,
   start |-> [day |-> start.day, ms |-> storeCfg.tod],
   end |-> [day |-> end.day, ms |-> storeCfg.tod]]

(***************************************************************************)
(* POST /admin/seed-releases.                                              *)
(***************************************************************************)
\* mutant of Reverse: the list is left in chronological order
Reverse_Identity(q) == q

Reverse(q) == [i \in 1..Len(q) |-> q[Len(q) + 1 - i]]

\* the periods handed to ensureSeedForGroup for a group: [...list].reverse()
SeedPeriods(run, label) == Reverse(run.periods[label])

\* mutant of SeedResponse: the groups whose fetch failed are left out of the
\* overall status
SeedResponse_FetchedOnly(run) ==
  LET successfulGroups == Cardinality({g \in LabelSet : run.status[g] = "success"})
      totalFailed == Len(run.failed)
  IN  [code |-> 200,
       status |-> IF successfulGroups > 0 THEN "success" ELSE "failed",
       successfulGroups |-> successfulGroups,
       failedGroups |-> 4 - successfulGroups,
       createdCount |-> Len(run.created),
       failedCreations |-> totalFailed,
       groups |-> run.status,
       createdNames |-> [i \in 1..Len(run.created) |-> run.created[i].name],
       failedList |-> IF totalFailed > 0 THEN run.failed ELSE <<>>]

\* the response of a finished request (status code and JSON body)
SeedResponse(run) ==
  LET successfulGroups == Cardinality({g \in LabelSet : run.status[g] = "success"})
      totalFailed == Len(run.failed)
  IN  [code |-> 200,
       status |-> IF successfulGroups = 4 THEN "success"
                  ELSE IF successfulGroups > 0 THEN "partial_success" ELSE "failed",
       successfulGroups |-> successfulGroups,
       failedGroups |-> 4 - successfulGroups,
       createdCount |-> Len(run.created),
       failedCreations |-> totalFailed,
       groups |-> run.status,
       createdNames |-> [i \in 1..Len(run.created) |-> run.created[i].name],
       failedList |-> IF totalFailed > 0 THEN run.failed ELSE <<>>]

\* mutant of groupFetched: a group is seeded whatever its fetch gave
groupFetched_Always(run, label) == TRUE

\* if (fetchResults[label].status !== 'fetched') the group is passed over
groupFetched(run, label) == run.status[label] = "fetched"

\* mutant of AfterCreateFailure: the error leaves ensureSeedForGroup
AfterCreateFailure_Abort(run) == [gi |-> run.gi + 1, pi |-> 1]

\* the catch block of ensureSeedForGroup: the loop goes on with the next period
AfterCreateFailure(run) == [gi |-> run.gi, pi |-> run.pi + 1]

\* The synchronous part of the handler from the group at position gi and the
\* period at position pi on: groups not fetched are passed over, a group with
\* no id returns at once, existing periods are skipped, until a createRelease
\* call is awaited or the response is sent.
RECURSIVE SeedAdvance(_, _, _)
SeedAdvance(run, gi, pi) ==
  IF gi > Len(GroupLabels)
  THEN [run EXCEPT !.pc = "done", !.gi = gi, !.pi = 1, !.response = SeedResponse(run)]
  ELSE LET label == GroupLabels[gi]
           periods == SeedPeriods(run, label)
           finished == [run EXCEPT !.status[label] = "success"]
       IN  IF ~groupFetched(run, label) THEN SeedAdvance(run, gi + 1, 1)
           ELSE IF RG_IDS[label] = "" THEN SeedAdvance(finished, gi + 1, 1)
           ELSE IF pi > Len(periods) THEN SeedAdvance(finished, gi + 1, 1)
           ELSE IF releaseWithTimeframeExists(run.releases[label],
                                              periods[pi].start, periods[pi].end)
                THEN SeedAdvance(run, gi, pi + 1)
           ELSE [run EXCEPT !.pc = "creating", !.gi = gi, !.pi = pi]

SeedNows == [day : {SeedFirstDay, SeedFirstDay + SeedDayGap}, ms : {MsPerDay \div 2}]

\* no request before this one, or one that seeded nothing
NoPrev == [rangeStart |-> None, rangeEnd |-> None, rangeEnd5Years |-> None, clean |-> {}]

\* What the request before this one did, kept when the next one starts: its
\* ranges, and the groups it seeded from an empty list of existing releases
\* with at least one createRelease call and none of them failing.
SeedSummary(run) ==
  [rangeStart |-> run.rangeStart, rangeEnd |-> run.rangeEnd,
   rangeEnd5Years |-> run.rangeEnd5Years,
   clean |-> {g \in LabelSet :
                /\ run.status[g] = "success"
                /\ RG_IDS[g] # ""
                /\ run.releases[g] = <<>>
                /\ \E i \in 1..Len(run.attempts) : run.attempts[i].label = g
                /\ \A i \in 1..Len(run.attempts) :
                     run.attempts[i].label = g => run.attempts[i].ok}]

\* the ranges the seed handler computes from the clock: today's start, and
\* the end of the day with today's month and date in a later year
\* (Date.UTC carries a date the month does not have into the next month)
seedRangeStart(now) == startOfDayUTC(now)

\* mutant of seedRangeEnd: the horizon is counted as 365 days a year
seedRangeEnd_Days(now, years) ==
  endOfDayUTC(addDays(startOfDayUTC(now), 365 * years))

seedRangeEnd(now, years) ==
  endOfDayUTC(addDays(atUTC(getUTCFullYear(now) + years, getUTCMonth(now),
                            getUTCDate(now)), 0))

\* the four period lists the handler builds at time now
seedBuildPeriods(now) ==
  [weekly |-> buildWeeklyPeriods(seedRangeStart(now), seedRangeEnd(now, 1)),
   monthly |-> buildMonthlyPeriods(seedRangeStart(now), seedRangeEnd(now, 1)),
   quarterly |-> buildQuarterlyPeriods(seedRangeStart(now), seedRangeEnd(now, 1),
                                       anchorMonthEnv),
   yearly |-> buildYearlyPeriods(seedRangeStart(now), seedRangeEnd(now, 5))]

\* a request arrives: the handler up to the four listReleasesForGroup calls
\* handed to Promise.allSettled
SeedRequest ==
  /\ seed.pc \in {"idle", "done"}
  /\ \E now \in SeedNows :
       seed' = [pc |-> "fetching",
                rangeStart |-> startOfDayUTC(now),
                rangeEnd |-> endOfDayUTC(addDays(startOfDayUTC(now), HorizonDays)),
                rangeEnd5Years |-> endOfDayUTC(addDays(startOfDayUTC(now), YearlyHorizonDays)),
                fetch |-> [g \in LabelSet |-> "pending"],
                answer |-> [g \in LabelSet |-> "pending"],
                releases |-> [g \in LabelSet |-> <<>>],
                status |-> [g \in LabelSet |-> "pending"],
                error |-> [g \in LabelSet |-> ""],
                periods |-> [g \in LabelSet |-> <<>>],
                gi |-> 0, pi |-> 0,
                created |-> <<>>, failed |-> <<>>, attempts |-> <<>>,
                response |-> [code |-> 0]]
  /\ prev' = IF seed.pc = "done" /\ seed.response.code = 200
             THEN SeedSummary(seed) ELSE NoPrev
  /\ UNCHANGED <<RG_IDS, storeCfg, catalog, faults>>
  /\ UNCHANGED nonSeedVars

\* the answers one listReleasesForGroup call of the request can get
FetchAnswers(label) ==
  IF RG_IDS[label] = "" THEN {"none"} ELSE ListAnswers(RG_IDS[label])

\* The four listReleasesForGroup promises settle and Promise.allSettled
\* resolves: 424 when no group was fetched, otherwise the periods are built
\* and seeding starts.
SeedFetched ==
  /\ seed.pc = "fetching"
  /\ \E answers \in [LabelSet -> {"none", "ok", "err", "s404", "s403"}] :
       /\ \A g \in LabelSet : answers[g] \in FetchAnswers(g)
       /\ LET result == [g \in LabelSet |-> listReleasesForGroup(RG_IDS[g], answers[g])]
              fulfilled == {g \in LabelSet : result[g].kind = "value"}
              settled == [seed EXCEPT
                 !.answer = answers,
                 !.fetch = [g \in LabelSet |->
                              IF g \in fulfilled THEN "fulfilled" ELSE "rejected"],
                 !.releases = [g \in LabelSet |->
                              IF g \in fulfilled THEN result[g].value ELSE <<>>],
                 !.status = [g \in LabelSet |->
                              IF g \in fulfilled THEN "fetched" ELSE "failed"],
                 !.error = [g \in LabelSet |->
                              IF g \in fulfilled THEN "" ELSE result[g].message]]
              availableGroups == Cardinality({g \in LabelSet : settled.status[g] = "fetched"})
              built == [settled EXCEPT
                 !.periods = [g \in LabelSet |->
                    CASE g = "weekly" -> buildWeeklyPeriods(seed.rangeStart, seed.rangeEnd)
                      [] g = "monthly" -> buildMonthlyPeriods(seed.rangeStart, seed.rangeEnd)
                      [] g = "quarterly" ->
                           buildQuarterlyPeriods(seed.rangeStart, seed.rangeEnd, anchorMonthEnv)
                      [] g = "yearly" ->
                           buildYearlyPeriods(seed.rangeStart, seed.rangeEnd5Years)]]
          IN  seed' = IF availableGroups = 0
                      THEN [settled EXCEPT !.pc = "done",
                                           !.response = [code |-> 424, status |-> "failed",
                                                         groups |-> settled.status]]
                      ELSE SeedAdvance(built, 1, 1)
  /\ UNCHANGED <<RG_IDS, storeCfg, catalog, prev, faults>>
  /\ UNCHANGED nonSeedVars

\* ensureSeedForGroup: the awaited createRelease call returns or throws, and
\* the handler runs on to the next call or to the response
SeedCreateSettle ==
  /\ seed.pc = "creating"
  /\ LET label == GroupLabels[seed.gi]
         groupId == RG_IDS[label]
         p == SeedPeriods(seed, label)[seed.pi]
     IN  \E answer \in CreateAnswers(groupId) :
           IF answer = "ok"
           THEN LET rel == StoredRelease(groupId, p.name, p.start, p.end)
                IN  /\ catalog' = [catalog EXCEPT ![groupId] = Append(@, rel)]
                    /\ faults' = faults
                    /\ seed' = SeedAdvance(
                         [seed EXCEPT
                            !.created = Append(@, [label |-> label, id |-> rel.id,
                                                   name |-> rel.name]),
                            !.attempts = Append(@, [label |-> label, name |-> p.name,
                                                    start |-> p.start, end |-> p.end,
                                                    granularity |-> GranularityOf(label),
                                                    ok |-> TRUE])],
                         seed.gi, seed.pi + 1)
           ELSE /\ catalog' = catalog
                /\ faults' = IF storeCfg.avail[groupId] = "ok" THEN faults + 1 ELSE faults
                /\ seed' = SeedAdvance(
                     [seed EXCEPT
                        !.failed = Append(@, [name |-> p.name,
                                              error |-> "POST /entities failed"]),
                        !.attempts = Append(@, [label |-> label, name |-> p.name,
                                                start |-> p.start, end |-> p.end,
                                                granularity |-> GranularityOf(label),
                                                ok |-> FALSE])],
                     AfterCreateFailure(seed).gi, AfterCreateFailure(seed).pi)
  /\ UNCHANGED <<RG_IDS, storeCfg, prev>>
  /\ UNCHANGED nonSeedVars


(***************************************************************************)
(* Seeding runs one request after another: a request starts when the one   *)
(* before it has been answered.  The configurations and stores tried:      *)
(* every group configured and accessible with an empty catalog, the store  *)
(* reporting every bound at noon; and a store with records created by      *)
(* hand, one group without an id, one unknown and one closed to the token. *)
(***************************************************************************)
AllIds == [g \in LabelSet |-> g]
AllOk == [g \in LabelSet |-> "ok"]
EmptyCatalog == [g \in LabelSet |-> <<>>]

\* records made by hand: one without a timeframe, one for the week of
\* SeedFirstDay with its bounds at noon, one month-long record that starts
\* on the first weekly period's Monday
HandMade(w, m) ==
  [EmptyCatalog EXCEPT
     !["weekly"] =
        << [id |-> <<"weekly", 1>>, name |-> <<"untimed">>, start |-> None, end |-> None],
           [id |-> <<"weekly", 2>>, name |-> w.name,
            start |-> ReTime(w.start, MsPerDay \div 2),
            end |-> ReTime(w.end, MsPerDay \div 2)],
           [id |-> <<"weekly", 3>>, name |-> <<"sprint">>,
            start |-> w.start, end |-> addDays(w.start, 27)] >>,
     !["monthly"] =
        << [id |-> <<"monthly", 1>>, name |-> m.name, start |-> m.start,
            end |-> endOfDayUTC(m.end)] >>]

HandMadeCatalog ==
  HandMade(buildWeeklyPeriods([day |-> SeedFirstDay, ms |-> 0],
                              [day |-> SeedFirstDay, ms |-> 0])[1],
           buildMonthlyPeriods([day |-> SeedFirstDay, ms |-> 0],
                               [day |-> SeedFirstDay, ms |-> 0])[1])

SeedScenarios ==
  { [ids |-> AllIds, avail |-> AllOk, tod |-> MsPerDay \div 2, catalog |-> EmptyCatalog],
    [ids |-> [AllIds EXCEPT !["quarterly"] = ""],
     avail |-> [AllOk EXCEPT !["yearly"] = "notfound", !["monthly"] = "forbidden"],
     tod |-> 0, catalog |-> HandMadeCatalog] }

InitSeed ==
  /\ gen = [kind |-> "idle"]
  /\ probe = probeIdle
  /\ \E sc \in SeedScenarios :
       /\ RG_IDS = sc.ids
       /\ storeCfg = [avail |-> sc.avail, tod |-> sc.tod]
       /\ catalog = sc.catalog
  /\ seed = [pc |-> "idle"]
  /\ prev = NoPrev
  /\ faults = 0
  /\ ReconIdle

NextSeed ==
  \/ SeedRequest
  \/ SeedFetched
  \/ SeedCreateSettle

SpecSeed == InitSeed /\ [][NextSeed]_vars

(***************************************************************************)
(* Properties of seeding.                                                  *)
(***************************************************************************)
\* the request has passed Promise.allSettled
SeedStarted == seed.pc \in {"creating", "done"}

\* the createRelease calls the request has made for a group so far
AttemptsFor(run, g) == {i \in 1..Len(run.attempts) : run.attempts[i].label = g}

\* the record and the period have the same pair of day keys
SameDayKeys(r, p) ==
  /\ r.start # None /\ r.end # None
  /\ toYMDUTC(r.start) = toYMDUTC(p.start)
  /\ toYMDUTC(r.end) = toYMDUTC(p.end)

\* the period has no record with its day keys in the list fetched for the group
Missing(run, g, p) ==
  \A i \in 1..Len(run.releases[g]) : ~SameDayKeys(run.releases[g][i], p)

\* every generated period of the group that was missing from the fetched list
\* has had exactly one createRelease call, the others none, and no call was
\* made for anything else
GroupSeeded(run, g) ==
  /\ \A k \in 1..Len(run.periods[g]) :
       LET p == run.periods[g][k]
           calls == {i \in AttemptsFor(run, g) :
                       /\ run.attempts[i].name = p.name
                       /\ run.attempts[i].start = p.start
                       /\ run.attempts[i].end = p.end}
       IN  Cardinality(calls) = IF Missing(run, g, p) THEN 1 ELSE 0
  /\ \A i \in AttemptsFor(run, g) :
       \E k \in 1..Len(run.periods[g]) : run.periods[g][k].name = run.attempts[i].name

SameRanges ==
  /\ prev.rangeStart = seed.rangeStart
  /\ prev.rangeEnd = seed.rangeEnd
  /\ prev.rangeEnd5Years = seed.rangeEnd5Years

\* C2 (seeding idempotence): when the request before this one seeded a group
\* from an empty list of existing releases and every createRelease call it made
\* for the group succeeded, a request over the same ranges makes no
\* createRelease call for that group; with all four groups so, it makes none
\* at all.
C2_Idempotent ==
  (SeedStarted /\ SameRanges) =>
     \A g \in prev.clean : AttemptsFor(seed, g) = {}

\* a second request over the same ranges, after one that seeded all four
\* groups from nothing, has fetched all four lists and is answered
C2_Witness ==
  /\ seed.pc = "done"
  /\ SameRanges
  /\ prev.clean = LabelSet
  /\ \A g \in LabelSet : seed.fetch[g] = "fulfilled" /\ Len(seed.releases[g]) > 0
  /\ seed.response.code = 200
  /\ seed.response.createdCount = 0

\* C3 (no duplicate periods): seed requests running one after another, from a
\* catalog without duplicates, never leave two records with the same
\* (start day, end day) pair in one release group.
C3_NoDuplicates ==
  \A g \in DOMAIN catalog :
    \A i, j \in 1..Len(catalog[g]) :
      (i # j /\ catalog[g][i].start # None /\ catalog[g][i].end # None) =>
         ~SameDayKeys(catalog[g][j], catalog[g][i])

\* two requests over different ranges have been answered, the second created
\* releases in a group that already had some
C3_Witness ==
  /\ seed.pc = "done"
  /\ prev.rangeStart # None
  /\ prev.rangeStart # seed.rangeStart
  /\ \E i \in 1..Len(seed.attempts) :
       /\ seed.attempts[i].ok
       /\ Len(seed.releases[seed.attempts[i].label]) > 0

\* the names of the calls that succeeded (ok) or failed (not ok), in call order
AttemptNames(run, ok) ==
  LET sel == SelectSeq(run.attempts, LAMBDA a : a.ok = ok)
  IN  [i \in 1..Len(sel) |-> sel[i].name]

\* C8 (per-period failure isolation): every createRelease call of a request is
\* in the created list when it succeeded and, with its name and an error
\* message, in the failed list when it failed, never in both and never in
\* neither; and when the request is answered, every generated period that had
\* no record with its day keys in the fetched list has had exactly one call,
\* whether or not earlier calls failed.
C8_FailureIsolation ==
  SeedStarted =>
    /\ [i \in 1..Len(seed.created) |-> seed.created[i].name] = AttemptNames(seed, TRUE)
    /\ [i \in 1..Len(seed.failed) |-> seed.failed[i].name] = AttemptNames(seed, FALSE)
    /\ \A i \in 1..Len(seed.failed) : seed.failed[i].error # ""
    /\ \A i \in 1..Len(seed.created) : \A j \in 1..Len(seed.failed) :
         seed.created[i].name # seed.failed[j].name
    /\ (seed.pc = "done" /\ seed.response.code = 200) =>
         \A g \in LabelSet :
           (seed.fetch[g] = "fulfilled" /\ RG_IDS[g] # "") => GroupSeeded(seed, g)

\* an answered request in which a createRelease call of a group failed and
\* a later call of the same group succeeded
C8_Witness ==
  /\ seed.pc = "done"
  /\ \E i, j \in 1..Len(seed.attempts) :
       /\ i < j
       /\ seed.attempts[i].label = seed.attempts[j].label
       /\ ~seed.attempts[i].ok
       /\ seed.attempts[j].ok

\* the part of the claim common to both readings of "the fetch failed":
\* Failed is the set of groups whose fetch failed
FetchIsolation(Failed) ==
  /\ SeedStarted => \A g \in Failed : AttemptsFor(seed, g) = {}
  /\ seed.pc = "done" =>
       /\ seed.response.code = 424 <=> Failed = LabelSet
       /\ seed.response.code = 424 =>
            seed.response.status = "failed" /\ seed.attempts = <<>>
       /\ seed.response.code # 424 =>
            /\ seed.response.code = 200
            /\ \A g \in LabelSet \ Failed : RG_IDS[g] # "" => GroupSeeded(seed, g)

NoRelease == <<"", 0>>

FaultLeft == faults < MaxPassFaults

\* the answers a listing of the reconciler can get
ReconListAnswers(groupId) ==
  (ListAnswers(groupId) \ {"err"}) \cup (IF FaultLeft THEN {"err"} ELSE {})

\* the answers to GET relationships and to DELETE: 2xx, another status, or no
\* response at all (fetch rejects)
CallAnswers == {"ok"} \cup (IF FaultLeft THEN {"status", "neterr"} ELSE {})

\* the array GET relationships returns, in the store's order
RECURSIVE SetToSeq(_)
SetToSeq(S) ==
  IF S = {} THEN <<>>
  ELSE <<CHOOSE x \in S : TRUE>> \o SetToSeq(S \ {CHOOSE x \in S : TRUE})

\* mutant of Abort: the error is not caught and processing stops for good
Abort_Uncaught(p, message) ==
  [p EXCEPT !.pc = "crashed", !.outcome[GroupLabels[p.gi]] = "threw", !.error = message]

\* an error leaves upsertAssignmentForGroup and is caught by processWebhookAsync
Abort(p, message) ==
  [p EXCEPT !.pc = "done", !.outcome[GroupLabels[p.gi]] = "threw", !.error = message]

\* The synchronous part of the pass from the granularity at position gi on:
\* upsertAssignmentForGroup returns at once without a feature end or a group
\* id, takes the group's releases from the cache or awaits their listing,
\* (Match) returns when no release contains the feature end and otherwise
\* awaits setFeatureAssignment.
RECURSIVE PassAdvance(_, _)
RECURSIVE Match(_, _)
\* mutant of PassAdvance: a feature without an end date is handled like any
\* other
PassAdvance_NoEndCheck(p, gi) ==
  IF gi > Len(GroupLabels) THEN [p EXCEPT !.pc = "done", !.gi = gi]
  ELSE IF RG_IDS[GroupLabels[gi]] = ""
       THEN PassAdvance([p EXCEPT !.outcome[GroupLabels[gi]] = "noId"], gi + 1)
  ELSE IF RG_IDS[GroupLabels[gi]] \notin p.cached
       THEN [p EXCEPT !.pc = "listing", !.gi = gi]
  ELSE Match(p, gi)

\* mutant of PassAdvance: a missing group id is an error
PassAdvance_NoIdThrows(p, gi) ==
  IF gi > Len(GroupLabels) THEN [p EXCEPT !.pc = "done", !.gi = gi]
  ELSE IF p.feature.end = None
       THEN PassAdvance([p EXCEPT !.outcome[GroupLabels[gi]] = "noEnd"], gi + 1)
  ELSE IF RG_IDS[GroupLabels[gi]] = ""
       THEN Abort([p EXCEPT !.gi = gi], "Missing release group ID")
  ELSE IF RG_IDS[GroupLabels[gi]] \notin p.cached
       THEN [p EXCEPT !.pc = "listing", !.gi = gi]
  ELSE Match(p, gi)

PassAdvance(p, gi) ==
  IF gi > Len(GroupLabels) THEN [p EXCEPT !.pc = "done", !.gi = gi]
  ELSE IF p.feature.end = None
       THEN PassAdvance([p EXCEPT !.outcome[GroupLabels[gi]] = "noEnd"], gi + 1)
  ELSE IF RG_IDS[GroupLabels[gi]] = ""
       THEN PassAdvance([p EXCEPT !.outcome[GroupLabels[gi]] = "noId"], gi + 1)
  ELSE IF RG_IDS[GroupLabels[gi]] \notin p.cached
       THEN [p EXCEPT !.pc = "listing", !.gi = gi]
  ELSE Match(p, gi)

Match(p, gi) ==
  LET label == GroupLabels[gi]
      releases == p.cache[RG_IDS[label]]
      target == findTarget(p.feature.end, releases)
  IN  IF target = 0
      THEN PassAdvance([p EXCEPT !.outcome[label] = "noMatch"], gi + 1)
      ELSE [p EXCEPT !.pc = "relsGet", !.gi = gi, !.target = releases[target].id,
                     !.matched[label] = releases[target].id]

\* the end dates a feature can have when it is fetched
FeatureEnds ==
  { [day |-> ReconFirstDay + FirstEndOffset, ms |-> 0],
    [day |-> ReconFirstDay + SecondEndOffset, ms |-> MsPerDay - 1],
    None }

\* a webhook delivery is processed: getFeature, then the pass up to its first
\* awaited call
PassStart ==
  /\ pass.pc \in {"idle", "done"}
  /\ pass.n < MaxPasses
  /\ \E end \in FeatureEnds, answer \in {"ok"} \cup (IF FaultLeft THEN {"err"} ELSE {}) :
       LET fresh == [pc |-> "start", n |-> pass.n + 1,
                     feature |-> [id |-> "F1", end |-> end],
                     cached |-> {}, cache |-> [g \in LabelSet |-> <<>>],
                     gi |-> 0, target |-> NoRelease, rels |-> <<>>, toDelete |-> <<>>,
                     outcome |-> [l \in LabelSet |-> "pending"],
                     matched |-> [l \in LabelSet |-> NoRelease],
                     listFailed |-> {}, calls |-> <<>>, error |-> "",
                     before |-> links, fetches |-> <<>>]
       IN  /\ pass' = IF answer = "ok" THEN PassAdvance(fresh, 1)
                      ELSE [fresh EXCEPT !.pc = "done", !.error = "GET /entities failed"]
           /\ faults' = IF answer = "ok" THEN faults ELSE faults + 1
  /\ UNCHANGED <<RG_IDS, storeCfg, catalog, links>>
  /\ UNCHANGED nonReconVars

\* upsertAssignmentForGroup: the awaited listReleasesForGroup returns or throws
PassListSettle ==
  /\ pass.pc = "listing"
  /\ \E answer \in ReconListAnswers(RG_IDS[GroupLabels[pass.gi]]) :
       LET label == GroupLabels[pass.gi]
           groupId == RG_IDS[label]
           result == listReleasesForGroup(groupId, answer)
           listed == [pass EXCEPT !.fetches = Append(@, [label |-> label,
                                                         groupId |-> groupId,
                                                         by |-> "upsertAssignmentForGroup"])]
       IN  /\ pass' = IF result.kind = "throw"
                      THEN PassAdvance([listed EXCEPT !.outcome[label] = "skipped",
                                                      !.listFailed = @ \cup {label}],
                                       pass.gi + 1)
                      ELSE Match([listed EXCEPT !.cached = @ \cup {groupId},
                                                !.cache[groupId] = result.value],
                                 pass.gi)
           /\ faults' = IF answer = "err" THEN faults + 1 ELSE faults
  /\ UNCHANGED <<RG_IDS, storeCfg, catalog, links>>
  /\ UNCHANGED nonReconVars

\* setFeatureAssignmentV2: GET relationships is answered
PassRelsSettle ==
  /\ pass.pc = "relsGet"
  /\ \E answer \in CallAnswers :
       /\ pass' = CASE answer = "ok" ->
                         [pass EXCEPT !.pc = "innerList", !.rels = SetToSeq(links)]
                    [] answer = "status" -> [pass EXCEPT !.pc = "posting"]
                    [] OTHER -> Abort(pass, "GET relationships failed")
       /\ faults' = IF answer = "ok" THEN faults ELSE faults + 1
  /\ UNCHANGED <<RG_IDS, storeCfg, catalog, links>>
  /\ UNCHANGED nonReconVars

\* setFeatureAssignmentV2: the group is listed again to tell which links are
\* links to its releases
PassInnerListSettle ==
  /\ pass.pc = "innerList"
  /\ \E answer \in ReconListAnswers(RG_IDS[GroupLabels[pass.gi]]) :
       LET label == GroupLabels[pass.gi]
           result == listReleasesForGroupV2(RG_IDS[label], answer)
           groupReleaseIds == {result.value[i].id : i \in 1..Len(result.value)}
           toDelete == SelectSeq(pass.rels,
                                 LAMBDA id : id \in groupReleaseIds /\ id # pass.target)
           listed == [pass EXCEPT !.fetches = Append(@, [label |-> label,
                                                         groupId |-> RG_IDS[label],
                                                         by |-> "setFeatureAssignmentV2"])]
       IN  /\ pass' = IF result.kind = "throw"
                      THEN Abort([listed EXCEPT !.listFailed = @ \cup {label}],
                                 result.message)
                      ELSE [listed EXCEPT !.toDelete = toDelete,
                                        !.pc = IF toDelete = <<>> THEN "posting"
                                               ELSE "deleting"]
           /\ faults' = IF answer = "err" THEN faults + 1 ELSE faults
  /\ UNCHANGED <<RG_IDS, storeCfg, catalog, links>>
  /\ UNCHANGED nonReconVars

\* setFeatureAssignmentV2: one DELETE of the loop is answered; the response is
\* not looked at
PassDeleteSettle ==
  /\ pass.pc = "deleting"
  /\ \E answer \in CallAnswers :
       LET id == Head(pass.toDelete)
           logged == [pass EXCEPT !.calls = Append(@, [label |-> GroupLabels[pass.gi],
                                                       op |-> "DELETE", id |-> id,
                                                       ok |-> answer = "ok"])]
       IN  /\ links' = IF answer = "ok" THEN links \ {id} ELSE links
           /\ pass' = IF answer = "neterr" THEN Abort(logged, "DELETE failed")
                      ELSE [logged EXCEPT !.toDelete = Tail(@),
                                          !.pc = IF Len(pass.toDelete) = 1 THEN "posting"
                                                 ELSE "deleting"]
           /\ faults' = IF answer = "ok" THEN faults ELSE faults + 1
  /\ UNCHANGED <<RG_IDS, storeCfg, catalog>>
  /\ UNCHANGED nonReconVars

\* setFeatureAssignmentV2: POST relationships is answered; upsertAssignmentForGroup
\* returns and the pass runs on to its next awaited call
PassPostSettle ==
  /\ pass.pc = "posting"
  /\ \E answer \in {"ok"} \cup (IF FaultLeft THEN {"err"} ELSE {}) :
       LET label == GroupLabels[pass.gi]
           logged == [pass EXCEPT !.calls = Append(@, [label |-> label, op |-> "POST",
                                                       id |-> pass.target,
                                                       ok |-> answer = "ok"])]
       IN  /\ links' = IF answer = "ok" THEN links \cup {pass.target} ELSE links
           /\ pass' = IF answer = "ok"
                      THEN PassAdvance([logged EXCEPT !.outcome[label] = "assigned"],
                                       pass.gi + 1)
                      ELSE Abort(logged, "POST relationships failed")
           /\ faults' = IF answer = "ok" THEN faults ELSE faults + 1
  /\ UNCHANGED <<RG_IDS, storeCfg, catalog>>
  /\ UNCHANGED nonReconVars

\* the records a seed request would leave for the periods, newest first, the
\* store reporting every bound at noon
StoreAll(groupId, periods) ==
  [i \in 1..Len(periods) |->
     [id |-> <<groupId, i>>, name |-> Reverse(periods)[i].name,
      start |-> ReTime(Reverse(periods)[i].start, MsPerDay \div 2),
      end |-> ReTime(Reverse(periods)[i].end, MsPerDay \div 2)]]

ReconStart == [day |-> ReconFirstDay, ms |-> 0]

ReconCatalog ==
  [g \in LabelSet |->
     CASE g = "weekly" ->
            StoreAll(g, buildWeeklyPeriods(ReconStart, addDays(ReconStart, ReconWeeklyDays)))
       [] g = "monthly" ->
            StoreAll(g, buildMonthlyPeriods(ReconStart, addDays(ReconStart, ReconDays)))
       [] g = "quarterly" ->
            StoreAll(g, buildQuarterlyPeriods(ReconStart, addDays(ReconStart, ReconDays),
                                              anchorMonthEnv))
       [] g = "yearly" ->
            StoreAll(g, buildYearlyPeriods(ReconStart, addDays(ReconStart, ReconDays)))]

\* the links the feature can have before the first delivery: any of the
\* monthly releases, the newest weekly release, a release of no group
PriorLinkSets ==
  SUBSET ({ReconCatalog["monthly"][i].id : i \in 1..Len(ReconCatalog["monthly"])}
          \cup {<<"weekly", 1>>, <<"elsewhere", 1>>})

ReconScenarios ==
  { [ids |-> AllIds, avail |-> AllOk],
    [ids |-> [AllIds EXCEPT !["quarterly"] = ""],
     avail |-> [AllOk EXCEPT !["yearly"] = "notfound"]] }

InitRecon ==
  /\ gen = [kind |-> "idle"]
  /\ probe = probeIdle
  /\ seed = [pc |-> "idle"]
  /\ prev = NoPrev
  /\ faults = 0
  /\ \E sc \in ReconScenarios :
       /\ RG_IDS = sc.ids
       /\ storeCfg = [avail |-> sc.avail, tod |-> MsPerDay \div 2]
  /\ catalog = ReconCatalog
  /\ links \in PriorLinkSets
  /\ pass = passIdle
  /\ FrontIdle

NextRecon ==
  \/ PassStart
  \/ PassListSettle
  \/ PassRelsSettle
  \/ PassInnerListSettle
  \/ PassDeleteSettle
  \/ PassPostSettle

SpecReconcile == InitRecon /\ [][NextRecon]_vars

(***************************************************************************)
(* Properties of reconciliation.                                           *)
(***************************************************************************)
\* the calls that change links, made for a granularity in the pass
LinkCalls(label) ==
  {i \in 1..Len(pass.calls) : pass.calls[i].label = label}

\* upsertAssignmentForGroup ran to its end for the granularity
Reconciled(label) == pass.outcome[label] \in {"noId", "noMatch", "skipped", "assigned"}

LabelIndex(label) == CHOOSE i \in 1..Len(GroupLabels) : GroupLabels[i] = label

\* C1 (single assignment per granularity), as stated: once
\* upsertAssignmentForGroup has found a matching release and completed, the
\* feature is linked to the matched release and to no other release of that
\* group, whatever it was linked to before.
C1_AsStated ==
  pass.pc # "idle" =>
    \A label \in LabelSet :
      pass.outcome[label] = "assigned" =>
        /\ pass.matched[label] \in links
        /\ \A r \in links : r[1] = RG_IDS[label] => r = pass.matched[label]

\* C10 (unavailable catalog), as stated: when a listing of a granularity's
\* group has failed in a pass, no DELETE and no POST was made for that
\* granularity and every later granularity of the pass was reconciled.
C10_AsStated ==
  pass.pc = "done" =>
    \A label \in pass.listFailed :
      /\ LinkCalls(label) = {}
      /\ \A later \in LabelSet :
           LabelIndex(later) > LabelIndex(label) => Reconciled(later)

\* the pass has fetched the feature and entered the four granularities
PassEntered == pass.pc # "idle" /\ pass.gi >= 1

\* C11 (granularities reconciled independently), as stated: when a pass that
\* entered the granularities has ended, upsertAssignmentForGroup has run for
\* each of the four, whatever failed or did not match in the others.
C11_AsStated ==
  (PassEntered /\ pass.pc = "done") =>
     \A label \in LabelSet : pass.outcome[label] # "pending"

\* the feature has an end date, the group is configured, and no release the
\* store holds for the group contains the end date
NoReleaseContains(label) ==
  /\ pass.feature.end # None
  /\ RG_IDS[label] # ""
  /\ \A i \in 1..Len(catalog[RG_IDS[label]]) :
       ~ContainsDay(catalog[RG_IDS[label]][i], pass.feature.end)

\* the links of a set that are links to releases of the granularity's group
GroupLinks(S, label) == {r \in S : r[1] = RG_IDS[label]}

\* C12 (no match leaves assignments untouched): when no release of a group
\* contains the feature's end date, the pass makes no POST and no DELETE for
\* that granularity and the feature's links to the group's releases are the
\* ones it had when the pass began.
C12_NoMatchUntouched ==
  PassEntered =>
    \A label \in LabelSet :
      NoReleaseContains(label) =>
        /\ LinkCalls(label) = {}
        /\ GroupLinks(links, label) = GroupLinks(pass.before, label)

\* a pass has ended in which the weekly group had no match while the feature
\* was, and still is, linked to a weekly release
C12_Witness ==
  /\ pass.pc = "done"
  /\ pass.outcome["weekly"] = "noMatch"
  /\ NoReleaseContains("weekly")
  /\ GroupLinks(links, "weekly") # {}
  /\ \E label \in LabelSet : pass.outcome[label] = "assigned"

\* C13 (missing end date is a no-op): a pass for a feature without a timeframe
\* end ends at once and without error, having listed no catalog and made no
\* POST and no DELETE in any of the four granularities; the feature's links
\* are unchanged.
C13_NoEndNoOp ==
  (PassEntered /\ pass.feature.end = None) =>
     /\ pass.pc = "done"
     /\ pass.error = ""
     /\ pass.fetches = <<>>
     /\ pass.calls = <<>>
     /\ links = pass.before
     /\ \A label \in LabelSet : pass.outcome[label] = "noEnd"

\* a pass for a feature without an end date has ended, the feature having links
C13_Witness ==
  /\ PassEntered
  /\ pass.pc = "done"
  /\ pass.feature.end = None
  /\ Cardinality(links) >= 2

\* C14 (assign before remove), as stated: in a pass a DELETE for a granularity
\* comes only after the POST of the matched release has succeeded, and a
\* feature that had a link to a release of the group when the pass began has
\* one at every point of the pass.
C14_AsStated ==
  PassEntered =>
    \A label \in LabelSet :
      /\ \A i \in LinkCalls(label) :
           pass.calls[i].op = "DELETE" =>
             \E j \in LinkCalls(label) :
               j < i /\ pass.calls[j].op = "POST" /\ pass.calls[j].ok
      /\ GroupLinks(pass.before, label) # {} => GroupLinks(links, label) # {}

\* the calls of the given kind made for the granularity that failed
FailedCalls(label, op) ==
  {i \in LinkCalls(label) : pass.calls[i].op = op /\ ~pass.calls[i].ok}

\* C15 (stale-link removal failures are not fatal), as stated: when a pass has
\* ended and a DELETE of a stale link of a granularity failed while its POST
\* did not, the granularity ended assigned, the feature is linked to the
\* matched release, and the failure did not end the pass.
C15_AsStated ==
  (PassEntered /\ pass.pc = "done") =>
    \A label \in LabelSet :
      (FailedCalls(label, "DELETE") # {} /\ FailedCalls(label, "POST") = {}) =>
        /\ pass.outcome[label] = "assigned"
        /\ pass.matched[label] \in links

\* C16 (granularity groups are independent): every step of every pass adds
\* and removes only links to releases of the group of the granularity being
\* reconciled.
C16_GroupsIndependent ==
  [][\A r \in (links' \ links) \cup (links \ links') :
       r[1] = RG_IDS[GroupLabels[pass.gi]]]_vars

\* the weekly granularity has removed a stale link and assigned, while the
\* feature keeps a monthly link that is still to be reconciled and a link to a
\* release of no group
C16_Witness ==
  /\ PassEntered
  /\ pass.gi = 2
  /\ pass.outcome["weekly"] = "assigned"
  /\ \E i \in LinkCalls("weekly") : pass.calls[i].op = "DELETE" /\ pass.calls[i].ok
  /\ GroupLinks(links, "monthly") # {}
  /\ <<"elsewhere", 1>> \in links

\* C17 (reverse chronological creation): the createRelease calls made for one
\* group come in strictly decreasing order of period start, and the failed
\* list holds the failed calls in the order they were made.
C17_ReverseChronological ==
  SeedStarted =>
    /\ \A i, j \in 1..Len(seed.attempts) :
         (i < j /\ seed.attempts[i].label = seed.attempts[j].label) =>
            /\ DateLE(seed.attempts[j].start, seed.attempts[i].start)
            /\ seed.attempts[j].start # seed.attempts[i].start
    /\ Len(seed.failed) = Len(AttemptNames(seed, FALSE))
    /\ \A i \in 1..Len(seed.failed) : seed.failed[i].name = AttemptNames(seed, FALSE)[i]

\* an answered request that made two failing calls for one group
C17_Witness ==
  /\ seed.pc = "done"
  /\ \E i, j \in 1..Len(seed.attempts) :
       /\ i < j
       /\ seed.attempts[i].label = seed.attempts[j].label
       /\ ~seed.attempts[i].ok
       /\ ~seed.attempts[j].ok

(***************************************************************************)
(* ensureSeedForGroup as a function of its arguments and of the outcome of *)
(* each createRelease call: the group's records after the loop, run once   *)
(* with the periods in reverse chronological order, as the service does,   *)
(* and once in chronological order.                                        *)
(***************************************************************************)
\* mutant of ensureSeedForGroup: the first failed creation ends the loop
RECURSIVE ensureSeedForGroup_StopOnFailure(_, _, _, _, _, _)
ensureSeedForGroup_StopOnFailure(groupId, periods, existingReleases, fails, records, i) ==
  IF groupId = "" \/ i > Len(periods) THEN records
  ELSE IF releaseWithTimeframeExists(existingReleases, periods[i].start, periods[i].end)
       THEN ensureSeedForGroup_StopOnFailure(groupId, periods, existingReleases, fails,
                                             records, i + 1)
  ELSE IF periods[i].name \in fails THEN records
  ELSE ensureSeedForGroup_StopOnFailure(
         groupId, periods, existingReleases, fails,
         Append(records, [id |-> <<groupId, Len(records) + 1>>, name |-> periods[i].name,
                          start |-> ReTime(periods[i].start, storeCfg.tod),
                          end |-> ReTime(periods[i].end, storeCfg.tod)]),
         i + 1)

\* The records of the group after the loop has run from period i on: fails is
\* the set of period names whose createRelease call throws, records the
\* records the store holds for the group.
RECURSIVE ensureSeedForGroup(_, _, _, _, _, _)
ensureSeedForGroup(groupId, periods, existingReleases, fails, records, i) ==
  IF groupId = "" \/ i > Len(periods) THEN records
  ELSE IF releaseWithTimeframeExists(existingReleases, periods[i].start, periods[i].end)
       THEN ensureSeedForGroup(groupId, periods, existingReleases, fails, records, i + 1)
  ELSE IF periods[i].name \in fails
       THEN ensureSeedForGroup(groupId, periods, existingReleases, fails, records, i + 1)
  ELSE ensureSeedForGroup(
         groupId, periods, existingReleases, fails,
         Append(records, [id |-> <<groupId, Len(records) + 1>>, name |-> periods[i].name,
                          start |-> ReTime(periods[i].start, storeCfg.tod),
                          end |-> ReTime(periods[i].end, storeCfg.tod)]),
         i + 1)

\* the periods of a group over a range
PeriodsOf(label, rangeStart, rangeEnd) ==
  CASE label = "weekly" -> buildWeeklyPeriods(rangeStart, rangeEnd)
    [] label = "monthly" -> buildMonthlyPeriods(rangeStart, rangeEnd)
    [] label = "quarterly" -> buildQuarterlyPeriods(rangeStart, rangeEnd, anchorMonthEnv)
    [] label = "yearly" -> buildYearlyPeriods(rangeStart, rangeEnd)

\* the records of the periods at the positions of I, as the store holds them
ExistingOf(groupId, periods, I) ==
  LET kept == SelectSeq([i \in 1..Len(periods) |-> [at |-> i, p |-> periods[i]]],
                        LAMBDA x : x.at \in I)
  IN  [k \in 1..Len(kept) |->
         [id |-> <<groupId, k>>, name |-> kept[k].p.name,
          start |-> ReTime(kept[k].p.start, MsPerDay \div 2),
          end |-> ReTime(kept[k].p.end, MsPerDay \div 2)]]

OrderInputsFor(label, periods) ==
  {[op |-> "order", label |-> label, periods |-> periods,
    existing |-> ExistingOf(label, periods, I),
    fails |-> {periods[i].name : i \in F},
    reversed |-> <<>>, chronological |-> <<>>, ran |-> {}] :
     I \in SUBSET (1..Len(periods)), F \in SUBSET (1..Len(periods))}

OrderInputs ==
  UNION {OrderInputsFor(label,
                        PeriodsOf(label, [day |-> OrderFirstDay + k * OrderDays, ms |-> 0],
                                  [day |-> OrderFirstDay + (k + 1) * OrderDays, ms |-> 0])) :
           label \in LabelSet, k \in 0..1}

InitOrder ==
  /\ gen = [kind |-> "idle"]
  /\ probe \in OrderInputs
  /\ RG_IDS = AllIds
  /\ storeCfg = [avail |-> AllOk, tod |-> MsPerDay \div 2]
  /\ catalog = EmptyCatalog
  /\ seed = [pc |-> "idle"]
  /\ prev = NoPrev
  /\ faults = 0
  /\ ReconIdle

\* the loop as the service runs it: [...periods].reverse()
SeedInReverse ==
  /\ probe.op = "order"
  /\ "reversed" \notin probe.ran
  /\ probe' = [probe EXCEPT
                 !.reversed = ensureSeedForGroup(RG_IDS[probe.label], Reverse(probe.periods),
                                                 probe.existing, probe.fails,
                                                 probe.existing, 1),
                 !.ran = @ \cup {"reversed"}]
  /\ UNCHANGED nonProbeVars

\* the loop over the periods in the order they were generated
SeedInOrder ==
  /\ probe.op = "order"
  /\ "chronological" \notin probe.ran
  /\ probe' = [probe EXCEPT
                 !.chronological = ensureSeedForGroup(RG_IDS[probe.label], probe.periods,
                                                      probe.existing, probe.fails,
                                                      probe.existing, 1),
                 !.ran = @ \cup {"chronological"}]
  /\ UNCHANGED nonProbeVars

NextOrder == SeedInReverse \/ SeedInOrder

SpecOrder == InitOrder /\ [][NextOrder]_vars

\* the records of a list without the ids the store gave them
RecordSet(records) ==
  {[name |-> records[i].name, start |-> records[i].start, end |-> records[i].end] :
     i \in 1..Len(records)}

\* C18 (creation order does not matter for the result): for the same periods,
\* existing records and per-period outcomes, the loop run in reverse
\* chronological order and run in chronological order leave the group with
\* the same set of release records (name and timeframe; the ids the store
\* hands out follow the order of creation).
C18_OrderIrrelevant ==
  (probe.op = "order" /\ probe.ran = {"reversed", "chronological"}) =>
     /\ RecordSet(probe.reversed) = RecordSet(probe.chronological)
     /\ Len(probe.reversed) = Len(probe.chronological)

\* both runs are done for a group with an existing record, two creations and
\* a failed creation between them
C18_Witness ==
  /\ probe.op = "order"
  /\ probe.ran = {"reversed", "chronological"}
  /\ probe.existing # <<>>
  /\ Len(probe.reversed) >= Len(probe.existing) + 2
  /\ \E i \in 2..(Len(probe.periods) - 1) :
       /\ probe.periods[i].name \in probe.fails
       /\ ~releaseWithTimeframeExists(probe.existing, probe.periods[i].start,
                                      probe.periods[i].end)

FetchesOf(groupId) ==
  {i \in 1..Len(pass.fetches) : pass.fetches[i].groupId = groupId}

\* C20 (one catalog fetch per group per pass), as stated: in a pass the
\* releases of each group are listed from the store at most once, and the
\* catalogs the pass holds are ones it listed itself.
C20_AsStated ==
  PassEntered =>
    /\ \A label \in LabelSet : Cardinality(FetchesOf(RG_IDS[label])) <= 1
    /\ \A groupId \in pass.cached : FetchesOf(groupId) # {}

(***************************************************************************)
(* Overlapping reconciliations: two deliveries for the same feature are    *)
(* processed at once.  Each pass is the code of processWebhookAsync; the   *)
(* passes share the store and take turns at their awaited calls, which is  *)
(* where the event loop can switch between them.  The store answers every  *)
(* call to an accessible group here, so what the passes leave behind is    *)
(* due to their interleaving alone.                                        *)
(***************************************************************************)
RunIds == {"A", "B"}

\* the pass processWebhookAsync starts once getFeature has returned
FreshPass(n, end) ==
  [pc |-> "start", n |-> n, feature |-> [id |-> "F1", end |-> end],
   cached |-> {}, cache |-> [g \in LabelSet |-> <<>>],
   gi |-> 0, target |-> NoRelease, rels |-> <<>>, toDelete |-> <<>>,
   outcome |-> [l \in LabelSet |-> "pending"],
   matched |-> [l \in LabelSet |-> NoRelease],
   listFailed |-> {}, calls |-> <<>>, error |-> "",
   before |-> links, fetches |-> <<>>]

\* the answers of the store in this model
OverlapListAnswers(groupId) == ListAnswers(groupId) \ {"err"}
OverlapCallAnswers == {"ok"}

\* getFeature returns the feature with the end date it has at that moment
OverlapStart(r) ==
  /\ runs[r].pc = "idle"
  /\ \E end \in FeatureEnds \ {None} :
       runs' = [runs EXCEPT ![r] = PassAdvance(FreshPass(1, end), 1)]
  /\ UNCHANGED <<RG_IDS, storeCfg, catalog, faults, links, pass, http>>
  /\ UNCHANGED <<gen, probe, seed, prev>>

\* upsertAssignmentForGroup: the awaited listReleasesForGroup returns or throws
OverlapListSettle(r) ==
  /\ runs[r].pc = "listing"
  /\ \E answer \in OverlapListAnswers(RG_IDS[GroupLabels[runs[r].gi]]) :
       LET p == runs[r]
           label == GroupLabels[p.gi]
           groupId == RG_IDS[label]
           result == listReleasesForGroup(groupId, answer)
           listed == [p EXCEPT !.fetches = Append(@, [label |-> label,
                                                      groupId |-> groupId,
                                                      by |-> "upsertAssignmentForGroup"])]
       IN  runs' = [runs EXCEPT ![r] =
                      IF result.kind = "throw"
                      THEN PassAdvance([listed EXCEPT !.outcome[label] = "skipped",
                                                      !.listFailed = @ \cup {label}],
                                       p.gi + 1)
                      ELSE Match([listed EXCEPT !.cached = @ \cup {groupId},
                                                !.cache[groupId] = result.value],
                                 p.gi)]
  /\ UNCHANGED <<RG_IDS, storeCfg, catalog, faults, links, pass, http>>
  /\ UNCHANGED <<gen, probe, seed, prev>>

\* setFeatureAssignmentV2: GET relationships is answered with the links the
\* feature has at that moment
OverlapRelsSettle(r) ==
  /\ runs[r].pc = "relsGet"
  /\ \E answer \in OverlapCallAnswers :
       runs' = [runs EXCEPT ![r] =
                  CASE answer = "ok" ->
                         [runs[r] EXCEPT !.pc = "innerList", !.rels = SetToSeq(links)]
                    [] answer = "status" -> [runs[r] EXCEPT !.pc = "posting"]
                    [] OTHER -> Abort(runs[r], "GET relationships failed")]
  /\ UNCHANGED <<RG_IDS, storeCfg, catalog, faults, links, pass, http>>
  /\ UNCHANGED <<gen, probe, seed, prev>>

\* setFeatureAssignmentV2: the group is listed again
OverlapInnerListSettle(r) ==
  /\ runs[r].pc = "innerList"
  /\ \E answer \in OverlapListAnswers(RG_IDS[GroupLabels[runs[r].gi]]) :
       LET p == runs[r]
           label == GroupLabels[p.gi]
           result == listReleasesForGroupV2(RG_IDS[label], answer)
           groupReleaseIds == {result.value[i].id : i \in 1..Len(result.value)}
           toDelete == SelectSeq(p.rels,
                                 LAMBDA id : id \in groupReleaseIds /\ id # p.target)
           listed == [p EXCEPT !.fetches = Append(@, [label |-> label,
                                                      groupId |-> RG_IDS[label],
                                                      by |-> "setFeatureAssignmentV2"])]
       IN  runs' = [runs EXCEPT ![r] =
                      IF result.kind = "throw"
                      THEN Abort([listed EXCEPT !.listFailed = @ \cup {label}],
                                 result.message)
                      ELSE [listed EXCEPT !.toDelete = toDelete,
                                          !.pc = IF toDelete = <<>> THEN "posting"
                                                 ELSE "deleting"]]
  /\ UNCHANGED <<RG_IDS, storeCfg, catalog, faults, links, pass, http>>
  /\ UNCHANGED <<gen, probe, seed, prev>>

\* setFeatureAssignmentV2: one DELETE of the loop is answered
OverlapDeleteSettle(r) ==
  /\ runs[r].pc = "deleting"
  /\ \E answer \in OverlapCallAnswers :
       LET p == runs[r]
           id == Head(p.toDelete)
           logged == [p EXCEPT !.calls = Append(@, [label |-> GroupLabels[p.gi],
                                                    op |-> "DELETE", id |-> id,
                                                    ok |-> answer = "ok"])]
       IN  /\ links' = IF answer = "ok" THEN links \ {id} ELSE links
           /\ runs' = [runs EXCEPT ![r] =
                         IF answer = "neterr" THEN Abort(logged, "DELETE failed")
                         ELSE [logged EXCEPT !.toDelete = Tail(@),
                                             !.pc = IF Len(p.toDelete) = 1 THEN "posting"
                                                    ELSE "deleting"]]
  /\ UNCHANGED <<RG_IDS, storeCfg, catalog, faults, pass, http>>
  /\ UNCHANGED <<gen, probe, seed, prev>>

\* setFeatureAssignmentV2: POST relationships is answered and the pass runs
\* on to its next awaited call
OverlapPostSettle(r) ==
  /\ runs[r].pc = "posting"
  /\ \E answer \in OverlapCallAnswers :
       LET p == runs[r]
           label == GroupLabels[p.gi]
           logged == [p EXCEPT !.calls = Append(@, [label |-> label, op |-> "POST",
                                                    id |-> p.target,
                                                    ok |-> answer = "ok"])]
       IN  /\ links' = IF answer = "ok" THEN links \cup {p.target} ELSE links
           /\ runs' = [runs EXCEPT ![r] =
                         IF answer = "ok"
                         THEN PassAdvance([logged EXCEPT !.outcome[label] = "assigned"],
                                          p.gi + 1)
                         ELSE Abort(logged, "POST relationships failed")]
  /\ UNCHANGED <<RG_IDS, storeCfg, catalog, faults, pass, http>>
  /\ UNCHANGED <<gen, probe, seed, prev>>

\* the links the feature has before the two deliveries: none, or the link a
\* pass made for an earlier end date
OverlapPriorLinks == {{}, {<<"monthly", 1>>}, {<<"monthly", 2>>, <<"weekly", 1>>}}

InitOverlap ==
  /\ gen = [kind |-> "idle"]
  /\ probe = probeIdle
  /\ seed = [pc |-> "idle"]
  /\ prev = NoPrev
  /\ faults = 0
  /\ \E sc \in ReconScenarios :
       /\ RG_IDS = sc.ids
       /\ storeCfg = [avail |-> sc.avail, tod |-> MsPerDay \div 2]
  /\ catalog = ReconCatalog
  /\ links \in OverlapPriorLinks
  /\ pass = passIdle
  /\ runs = [r \in RunIds |-> passIdle]
  /\ http = httpIdle

NextOverlap ==
  \E r \in RunIds :
    \/ OverlapStart(r)
    \/ OverlapListSettle(r)
    \/ OverlapRelsSettle(r)
    \/ OverlapInnerListSettle(r)
    \/ OverlapDeleteSettle(r)
    \/ OverlapPostSettle(r)

SpecOverlap == InitOverlap /\ [][NextOverlap]_vars

\* C21: once two overlapping passes for the same feature have both ended,
\* however their store calls interleaved, the feature holds at most one
\* link in each granularity group.
C21_AsStated ==
  (\A r \in RunIds : runs[r].pc = "done")
    => \A label \in LabelSet : Cardinality(GroupLinks(links, label)) <= 1

(***************************************************************************)
(* Overlapping seed requests: the handler of /admin/seed-releases takes no *)
(* lock, so two requests can be in progress at once.  Each run is the code *)
(* of the handler; the runs share the store and take turns at their        *)
(* awaited calls (Promise.allSettled, createRelease).                      *)
(***************************************************************************)
\* the handler up to the four listReleasesForGroup calls
FreshSeed(now) ==
  [pc |-> "fetching",
   rangeStart |-> startOfDayUTC(now),
   rangeEnd |-> endOfDayUTC(addDays(startOfDayUTC(now), HorizonDays)),
   rangeEnd5Years |-> endOfDayUTC(addDays(startOfDayUTC(now), YearlyHorizonDays)),
   fetch |-> [g \in LabelSet |-> "pending"],
   answer |-> [g \in LabelSet |-> "pending"],
   releases |-> [g \in LabelSet |-> <<>>],
   status |-> [g \in LabelSet |-> "pending"],
   error |-> [g \in LabelSet |-> ""],
   periods |-> [g \in LabelSet |-> <<>>],
   gi |-> 0, pi |-> 0,
   created |-> <<>>, failed |-> <<>>, attempts |-> <<>>,
   response |-> [code |-> 0]]

\* Promise.allSettled resolves with the four answers: the groups' lists as
\* the store holds them at that moment, then 424 or the first createRelease
FetchSettled(run, answers) ==
  LET result == [g \in LabelSet |-> listReleasesForGroup(RG_IDS[g], answers[g])]
      fulfilled == {g \in LabelSet : result[g].kind = "value"}
      settled == [run EXCEPT
         !.answer = answers,
         !.fetch = [g \in LabelSet |-> IF g \in fulfilled THEN "fulfilled" ELSE "rejected"],
         !.releases = [g \in LabelSet |-> IF g \in fulfilled THEN result[g].value ELSE <<>>],
         !.status = [g \in LabelSet |-> IF g \in fulfilled THEN "fetched" ELSE "failed"],
         !.error = [g \in LabelSet |-> IF g \in fulfilled THEN "" ELSE result[g].message]]
      availableGroups == Cardinality({g \in LabelSet : settled.status[g] = "fetched"})
      built == [settled EXCEPT
         !.periods = [g \in LabelSet |->
            CASE g = "weekly" -> buildWeeklyPeriods(run.rangeStart, run.rangeEnd)
              [] g = "monthly" -> buildMonthlyPeriods(run.rangeStart, run.rangeEnd)
              [] g = "quarterly" ->
                   buildQuarterlyPeriods(run.rangeStart, run.rangeEnd, anchorMonthEnv)
              [] g = "yearly" -> buildYearlyPeriods(run.rangeStart, run.rangeEnd5Years)]]
  IN  IF availableGroups = 0
      THEN [settled EXCEPT !.pc = "done",
                           !.response = [code |-> 424, status |-> "failed",
                                         groups |-> settled.status]]
      ELSE SeedAdvance(built, 1, 1)

\* a request arrives while the other may be in progress
RaceRequest(r) ==
  /\ runs[r].pc = "idle"
  /\ \E now \in SeedNows : runs' = [runs EXCEPT ![r] = FreshSeed(now)]
  /\ UNCHANGED <<RG_IDS, storeCfg, catalog, seed, prev, faults>>
  /\ UNCHANGED <<gen, probe, links, pass, http>>

\* the answers one listReleasesForGroup call of a run can get, the listing of
\* the monthly group being the one that may fail
RaceFetchAnswers(label) ==
  IF RG_IDS[label] = "" THEN {"none"}
  ELSE IF label = "monthly" THEN ListAnswers(RG_IDS[label])
  ELSE ListAnswers(RG_IDS[label]) \ {"err"}

RaceFetched(r) ==
  /\ runs[r].pc = "fetching"
  /\ \E answers \in [LabelSet -> {"none", "ok", "err", "s404", "s403"}] :
       /\ \A g \in LabelSet : answers[g] \in RaceFetchAnswers(g)
       /\ runs' = [runs EXCEPT ![r] = FetchSettled(runs[r], answers)]
  /\ UNCHANGED <<RG_IDS, storeCfg, catalog, seed, prev, faults>>
  /\ UNCHANGED <<gen, probe, links, pass, http>>

\* ensureSeedForGroup: the awaited createRelease call of a run returns or
\* throws, and the run goes on to its next call or to its response
RaceCreateSettle(r) ==
  /\ runs[r].pc = "creating"
  /\ LET run == runs[r]
         label == GroupLabels[run.gi]
         groupId == RG_IDS[label]
         p == SeedPeriods(run, label)[run.pi]
     IN  \E answer \in CreateAnswers(groupId) :
           IF answer = "ok"
           THEN LET rel == StoredRelease(groupId, p.name, p.start, p.end)
                IN  /\ catalog' = [catalog EXCEPT ![groupId] = Append(@, rel)]
                    /\ faults' = faults
                    /\ runs' = [runs EXCEPT ![r] = SeedAdvance(
                         [run EXCEPT
                            !.created = Append(@, [label |-> label, id |-> rel.id,
                                                   name |-> rel.name]),
                            !.attempts = Append(@, [label |-> label, name |-> p.name,
                                                    start |-> p.start, end |-> p.end,
                                                    granularity |-> GranularityOf(label),
                                                    ok |-> TRUE])],
                         run.gi, run.pi + 1)]
           ELSE /\ catalog' = catalog
                /\ faults' = IF storeCfg.avail[groupId] = "ok" THEN faults + 1 ELSE faults
                /\ runs' = [runs EXCEPT ![r] = SeedAdvance(
                     [run EXCEPT
                        !.failed = Append(@, [name |-> p.name,
                                              error |-> "POST /entities failed"]),
                        !.attempts = Append(@, [label |-> label, name |-> p.name,
                                                start |-> p.start, end |-> p.end,
                                                granularity |-> GranularityOf(label),
                                                ok |-> FALSE])],
                     AfterCreateFailure(run).gi, AfterCreateFailure(run).pi)]
  /\ UNCHANGED <<RG_IDS, storeCfg, seed, prev>>
  /\ UNCHANGED <<gen, probe, links, pass, http>>

InitSeedRace ==
  /\ gen = [kind |-> "idle"]
  /\ probe = probeIdle
  /\ \E sc \in SeedScenarios :
       /\ RG_IDS = sc.ids
       /\ storeCfg = [avail |-> sc.avail, tod |-> sc.tod]
       /\ catalog = sc.catalog
  /\ seed = [pc |-> "idle"]
  /\ prev = NoPrev
  /\ faults = 0
  /\ links = {}
  /\ pass = passIdle
  /\ runs = [r \in RunIds |-> [pc |-> "idle"]]
  /\ http = httpIdle

NextSeedRace ==
  \E r \in RunIds :
    \/ RaceRequest(r)
    \/ RaceFetched(r)
    \/ RaceCreateSettle(r)

SpecSeedRace == InitSeedRace /\ [][NextSeedRace]_vars

\* the runs that have been answered 200
Answered(r) == runs[r].pc = "done" /\ runs[r].response.code = 200

\* the run seeded the group: its list was fetched and the group has an id
Seeds(r, g) == runs[r].fetch[g] = "fulfilled" /\ RG_IDS[g] # ""

\* the createRelease calls of a run for a period of a group
CallsFor(r, g, p) ==
  {i \in AttemptsFor(runs[r], g) :
     /\ runs[r].attempts[i].start = p.start
     /\ runs[r].attempts[i].end = p.end}

\* C22 (concurrent seeding race): there is no locking, so when two seed runs
\* have both fetched a group's list without a period P in it, each of them
\* issues a createRelease call for P; and a run never issues a createRelease
\* call for a period that was in the list it fetched.
C22_SeedingRace ==
  /\ \A r \in RunIds : \A g \in LabelSet :
       (runs[r].pc \in {"creating", "done"}) =>
          \A i \in AttemptsFor(runs[r], g) : Missing(runs[r], g, runs[r].attempts[i])
  /\ \A g \in LabelSet :
       ((\A r \in RunIds : Answered(r) /\ Seeds(r, g))) =>
          \A r \in RunIds : \A k \in 1..Len(runs[r].periods[g]) :
            LET p == runs[r].periods[g][k]
            IN  (\A q \in RunIds :
                   /\ \E j \in 1..Len(runs[q].periods[g]) :
                        /\ runs[q].periods[g][j].start = p.start
                        /\ runs[q].periods[g][j].end = p.end
                   /\ Missing(runs[q], g, p))
                => \A q \in RunIds : Cardinality(CallsFor(q, g, p)) = 1

\* both runs have been answered and each created the same period of a group,
\* which the store now holds twice; one of the runs found other periods of
\* the group in its list and skipped them
C22_Witness ==
  /\ \A r \in RunIds : Answered(r)
  /\ \E g \in LabelSet : \E i, j \in 1..Len(catalog[g]) :
       /\ i # j
       /\ SameDayKeys(catalog[g][i], catalog[g][j])
       /\ \A r \in RunIds : \E a \in AttemptsFor(runs[r], g) :
            runs[r].attempts[a].ok /\ SameDayKeys(catalog[g][i], runs[r].attempts[a])
  /\ \E r \in RunIds : \E g \in LabelSet : \E k \in 1..Len(runs[r].periods[g]) :
       ~Missing(runs[r], g, runs[r].periods[g][k])

(***************************************************************************)
(* The HTTP front: requireAuth and the handler of POST /pb-webhook.  A     *)
(* header value or a secret is a sequence of pieces ("Bearer " is one      *)
(* piece), so that prefixing and startsWith are what they are on strings.  *)
(* A field of the payload that is absent has the value undefined, which    *)
(* like "" is falsy.  updatedAttributes is [kind |-> "array", items |->    *)
(* ...] or a value of another kind.  What a handler does in its turn is a  *)
(* sequence of effects, in the order of the code: responses sent and       *)
(* store calls issued.                                                     *)
(***************************************************************************)
undefined == "<undefined>"

startsWithBearer(s) == Len(s) > 0 /\ s[1] = "Bearer "

\* mutant of requireAuth: any header that starts with "Bearer " passes
requireAuth_AnyBearer(auth, WEBHOOK_AUTH) ==
  IF ~startsWithBearer(auth) /\ auth # WEBHOOK_AUTH THEN 401 ELSE 0

\* requireAuth: 401, or 0 when next() is called
requireAuth(auth, WEBHOOK_AUTH) ==
  LET expectedAuth == IF startsWithBearer(WEBHOOK_AUTH) THEN WEBHOOK_AUTH
                      ELSE <<"Bearer ">> \o WEBHOOK_AUTH
  IN  IF auth # expectedAuth /\ auth # WEBHOOK_AUTH THEN 401 ELSE 0

Falsy(x) == x \in {undefined, ""}

\* a || b
OrElse(a, b) == IF Falsy(a) THEN b ELSE a

Response(code) == [kind |-> "response", code |-> code, op |-> ""]
StoreCall(op) == [kind |-> "call", code |-> 0, op |-> op]

\* body?.data?.eventType || body?.data?.type || body?.type
eventTypeOf(body) == OrElse(body.dataEventType, OrElse(body.dataType, body.type))

\* body?.data?.id || ... || body?.entity?.id
featureIdOf(body) == OrElse(body.dataId, body.entityId)

\* body?.data?.updatedAttributes || []
updatedAttributesOf(body) ==
  IF body.updatedAttributes.kind \in {"undefined", "emptyString"}
  THEN [kind |-> "array", items |-> <<>>]
  ELSE body.updatedAttributes

Includes(items, x) == \E i \in 1..Len(items) : items[i] = x

\* mutant of pbWebhook: the feature is processed before the response is sent
pbWebhook_ProcessFirst(body) ==
  LET eventType == eventTypeOf(body)
      featureId == featureIdOf(body)
      updatedAttributes == updatedAttributesOf(body)
  IN  IF Falsy(eventType) THEN <<Response(204)>>
      ELSE IF eventType \notin {"feature.updated", "feature.created"} THEN <<Response(204)>>
      ELSE IF /\ eventType = "feature.updated"
              /\ updatedAttributes.kind = "array"
              /\ ~Includes(updatedAttributes.items, "timeframe")
           THEN <<Response(204)>>
      ELSE IF Falsy(featureId) THEN <<Response(400)>>
      ELSE <<StoreCall("getFeature"), Response(200)>>

\* mutant of pbWebhook: no check of the updated attributes
pbWebhook_NoLoopCheck(body) ==
  LET eventType == eventTypeOf(body)
      featureId == featureIdOf(body)
  IN  IF Falsy(eventType) THEN <<Response(204)>>
      ELSE IF eventType \notin {"feature.updated", "feature.created"} THEN <<Response(204)>>
      ELSE IF Falsy(featureId) THEN <<Response(400)>>
      ELSE <<Response(200), StoreCall("getFeature")>>

\* The handler of POST /pb-webhook: the effects of its turn.  An accepted
\* delivery is answered 200 and processWebhookAsync is then called without
\* await: it runs up to its first await, the getFeature call.
pbWebhook(body) ==
  LET eventType == eventTypeOf(body)
      featureId == featureIdOf(body)
      updatedAttributes == updatedAttributesOf(body)
  IN  IF Falsy(eventType) THEN <<Response(204)>>
      ELSE IF eventType \notin {"feature.updated", "feature.created"} THEN <<Response(204)>>
      ELSE IF /\ eventType = "feature.updated"
              /\ updatedAttributes.kind = "array"
              /\ ~Includes(updatedAttributes.items, "timeframe")
           THEN <<Response(204)>>
      ELSE IF Falsy(featureId) THEN <<Response(400)>>
      ELSE <<Response(200), StoreCall("getFeature")>>

\* the codes of the responses among the effects, and the calls among them
CodesOf(effects) ==
  [i \in 1..Len(SelectSeq(effects, LAMBDA e : e.kind = "response")) |->
     SelectSeq(effects, LAMBDA e : e.kind = "response")[i].code]
CallsOf(effects) == SelectSeq(effects, LAMBDA e : e.kind = "call")

\* The front after the turn of one request: its number, the request, the
\* effects of the turn, and over all requests the response codes sent and
\* the number of processWebhookAsync calls.
Handled(request, effects) ==
  [http EXCEPT !.n = @ + 1, !.last = request, !.turn = effects,
               !.codes = @ \o CodesOf(effects),
               !.jobs = @ + Len(SelectSeq(effects, LAMBDA e : e = StoreCall("getFeature")))]

\* app.post("/pb-webhook", requireAuth, handler)
RouteWebhook(auth, body) ==
  IF requireAuth(auth, http.WEBHOOK_AUTH) = 401 THEN <<Response(401)>>
  ELSE pbWebhook(body)

(***************************************************************************)
(* One request to either endpoint, with any Authorization header and any   *)
(* payload of the shapes below, handled up to the first await of its       *)
(* handler: the webhook handler to its response (and the getFeature call   *)
(* of processWebhookAsync), the seed handler to Promise.allSettled.        *)
(***************************************************************************)
Secrets == {<<"s3cret">>, <<"Bearer ", "s3cret">>}

Headers ==
  { <<>>, <<"s3cret">>, <<"Bearer ", "s3cret">>, <<"Bearer ", "Bearer ", "s3cret">>,
    <<"wrong">>, <<"Bearer ", "wrong">>, <<"bearer ", "s3cret">> }

\* updatedAttributes: absent, "", arrays, and a string that is not "timeframe"
AttributeValues ==
  { [kind |-> "undefined", items |-> <<>>],
    [kind |-> "emptyString", items |-> <<>>],
    [kind |-> "array", items |-> <<>>],
    [kind |-> "array", items |-> <<"timeframe">>],
    [kind |-> "array", items |-> <<"name">>],
    [kind |-> "array", items |-> <<"name", "timeframe">>],
    [kind |-> "string", items |-> <<>>] }

Bodies ==
  [dataEventType : {undefined, "", "feature.created", "feature.updated", "note.created"},
   dataType : {undefined, "feature.created"},
   type : {undefined, "feature.updated"},
   updatedAttributes : AttributeValues,
   dataId : {undefined, "F1"},
   entityId : {undefined, "F1"}]

NoBody ==
  [dataEventType |-> undefined, dataType |-> undefined, type |-> undefined,
   updatedAttributes |-> [kind |-> "undefined", items |-> <<>>],
   dataId |-> undefined, entityId |-> undefined]

Requests ==
  [endpoint : {"/pb-webhook"}, auth : Headers, body : Bodies]
    \cup [endpoint : {"/admin/seed-releases"}, auth : Headers, body : {NoBody}]

\* the front before any request, with the secret it is configured with
FreshFront(secret, request) ==
  [WEBHOOK_AUTH |-> secret, n |-> 0, last |-> request, turn |-> <<>>, codes |-> <<>>,
   jobs |-> 0, users |-> 0, echo |-> [n |-> 0, k |-> 0, started |-> 0]]

\* POST /pb-webhook
FrontWebhook ==
  /\ http.n = 0
  /\ http.last.endpoint = "/pb-webhook"
  /\ http' = Handled(http.last, RouteWebhook(http.last.auth, http.last.body))
  /\ UNCHANGED <<gen, probe, RG_IDS, storeCfg, catalog, seed, prev, faults, links, pass, runs>>

\* POST /admin/seed-releases: 401, or the handler up to Promise.allSettled
FrontSeed ==
  /\ http.n = 0
  /\ http.last.endpoint = "/admin/seed-releases"
  /\ IF requireAuth(http.last.auth, http.WEBHOOK_AUTH) = 401
     THEN /\ http' = Handled(http.last, <<Response(401)>>)
          /\ seed' = seed
     ELSE /\ http' = Handled(http.last,
                             [i \in 1..Len(GroupLabels) |-> StoreCall("listReleasesForGroup")])
          /\ \E now \in SeedNows : seed' = FreshSeed(now)
  /\ UNCHANGED <<gen, probe, RG_IDS, storeCfg, catalog, prev, faults, links, pass, runs>>

InitFront ==
  /\ gen = [kind |-> "idle"]
  /\ probe = probeIdle
  /\ RG_IDS = AllIds
  /\ storeCfg = [avail |-> AllOk, tod |-> MsPerDay \div 2]
  /\ catalog = EmptyCatalog
  /\ seed = [pc |-> "idle"]
  /\ prev = NoPrev
  /\ faults = 0
  /\ links = {}
  /\ pass = passIdle
  /\ runs = <<>>
  /\ \E secret \in Secrets, request \in Requests : http = FreshFront(secret, request)

NextFront == FrontWebhook \/ FrontSeed

SpecFront == InitFront /\ [][NextFront]_vars

\* the request has been handled
FrontHandled == http.n = 1

C26_AuthGate ==
  (/\ FrontHandled
   /\ http.last.auth # http.WEBHOOK_AUTH
   /\ http.last.auth # <<"Bearer ">> \o http.WEBHOOK_AUTH) =>
     /\ http.codes = <<401>>
     /\ CallsOf(http.turn) = <<>>
     /\ http.jobs = 0
     /\ seed = [pc |-> "idle"]
     /\ pass = passIdle
     /\ links = {}
     /\ catalog = EmptyCatalog

\* a seed request with a wrong bearer token has been answered 401
C26_Witness ==
  /\ FrontHandled
  /\ http.last.endpoint = "/admin/seed-releases"
  /\ http.last.auth = <<"Bearer ", "wrong">>
  /\ http.codes = <<401>>
  /\ seed = [pc |-> "idle"]

(***************************************************************************)
(* Webhook deliveries and their processing.  The store delivers a webhook  *)
(* when a user creates the feature or changes it, and one (an echo) for    *)
(* every link the service itself adds or removes: a feature.updated whose  *)
(* updatedAttributes names the releases, not the timeframe.  An accepted   *)
(* delivery is processed by a pass of the reconciler; the passes run one   *)
(* after another here.                                                     *)
(***************************************************************************)
\* number of deliveries caused by a user
MaxDeliveries == 1

GoodHeader == <<"Bearer ", "s3cret">>

FeatureBody(eventType, items, id) ==
  [NoBody EXCEPT !.dataEventType = eventType,
                 !.updatedAttributes = [kind |-> "array", items |-> items],
                 !.dataId = id]

\* what the store sends for a change made by a user
UserBodies ==
  { FeatureBody("feature.created", <<>>, "F1"),
    FeatureBody("feature.updated", <<"timeframe">>, "F1"),
    FeatureBody("feature.updated", <<"name">>, "F1"),
    FeatureBody("feature.updated", <<"timeframe">>, undefined) }

\* what the store sends for a link added or removed by the service
EchoBody == FeatureBody("feature.updated", <<"releases">>, "F1")

\* the link calls of the current pass that succeeded
LinkChanges ==
  IF pass.pc = "idle" THEN 0
  ELSE Len(SelectSeq(pass.calls, LAMBDA c : c.ok))

\* the store has an echo to deliver for the current pass
EchoPending ==
  IF http.echo.n = pass.n THEN LinkChanges > http.echo.k ELSE LinkChanges > 0

\* a delivery caused by a user arrives, with or without the right header
Deliver ==
  /\ http.users < MaxDeliveries
  /\ \E auth \in {GoodHeader, <<>>}, body \in UserBodies :
       http' = [Handled([endpoint |-> "/pb-webhook", auth |-> auth, body |-> body],
                        RouteWebhook(auth, body))
                  EXCEPT !.users = @ + 1]
  /\ UNCHANGED <<gen, probe, RG_IDS, storeCfg, catalog, seed, prev, faults, links, pass, runs>>

\* the echo of a link change arrives
Echo ==
  /\ EchoPending
  /\ LET effects == RouteWebhook(GoodHeader, EchoBody)
         handled == Handled([endpoint |-> "/pb-webhook", auth |-> GoodHeader,
                             body |-> EchoBody], effects)
     IN  http' = [handled EXCEPT
                    !.echo = [n |-> pass.n,
                              k |-> IF http.echo.n = pass.n THEN http.echo.k + 1 ELSE 1,
                              started |-> http.echo.started + Len(CallsOf(effects))]]
  /\ UNCHANGED <<gen, probe, RG_IDS, storeCfg, catalog, seed, prev, faults, links, pass, runs>>

\* getFeature of the next accepted delivery is answered and its pass runs
Process ==
  /\ pass.n < http.jobs
  /\ PassStart

\* the feature is linked to the releases of an earlier end date; the store
\* has failed `failed' calls so far
WebhookStart(failed) ==
  /\ gen = [kind |-> "idle"]
  /\ probe = probeIdle
  /\ seed = [pc |-> "idle"]
  /\ prev = NoPrev
  /\ faults = failed
  /\ RG_IDS = AllIds
  /\ storeCfg = [avail |-> [AllOk EXCEPT !["yearly"] = "notfound"], tod |-> MsPerDay \div 2]
  /\ catalog = ReconCatalog
  /\ links \in {{<<"monthly", 1>>}, {<<"monthly", 1>>, <<"weekly", 1>>}}
  /\ pass = passIdle
  /\ runs = <<>>
  /\ http = FreshFront(<<"s3cret">>, [endpoint |-> "", auth |-> <<>>, body |-> NoBody])

InitWebhook == WebhookStart(0)

\* a store that answers every call: no failure is left to it
InitWebhookFair == WebhookStart(MaxPassFaults)

\* the steps of the service and of the store's echo delivery
Processing ==
  \/ Echo
  \/ Process
  \/ PassListSettle
  \/ PassRelsSettle
  \/ PassInnerListSettle
  \/ PassDeleteSettle
  \/ PassPostSettle

NextWebhook == Deliver \/ Processing

SpecWebhook == InitWebhook /\ [][NextWebhook]_vars

\* every awaited call is answered in the end and every echo delivered
SpecWebhookFair == InitWebhookFair /\ [][NextWebhook]_vars /\ WF_vars(Processing)

\* the number of requests answered 200
Accepted == Len(SelectSeq(http.codes, LAMBDA c : c = 200))

\* C24 (respond before processing): for an accepted webhook the 200 response
\* is sent before any store call of its reconciliation is issued, exactly
\* one response is sent per request, and no later processing step or
\* failure changes or repeats a response.
C24_RespondFirst ==
  /\ [](/\ Len(http.codes) = http.n
        /\ http.n > 0 =>
             /\ http.turn[1].kind = "response"
             /\ \A i \in 2..Len(http.turn) : http.turn[i].kind = "call"
        /\ http.jobs = Accepted
        /\ pass.n <= Accepted)
  /\ [][/\ pass' # pass => http' = http
        /\ SubSeq(http'.codes, 1, Len(http.codes)) = http.codes]_vars

\* the pass of an accepted delivery has failed after its 200 response, and
\* another request has been answered since
C24_Witness ==
  /\ pass.pc = "done"
  /\ pass.error # ""
  /\ Accepted >= 1
  /\ http.n >= 2
  /\ Len(http.codes) = http.n

\* nothing is in progress and nothing is left to process
Quiescent ==
  /\ pass.pc \in {"idle", "done"}
  /\ pass.n = http.jobs
  /\ ~EchoPending

\* C25 (feedback loop prevention): the feature.updated webhook the store
\* sends for the service's own link changes never starts a reconciliation;
\* each accepted timeframe change or creation gets exactly one pass, and
\* the system comes to rest.
C25_NoFeedbackLoop ==
  /\ [](/\ http.echo.started = 0
        /\ pass.n <= http.jobs
        /\ http.jobs <= http.users)
  /\ <>[]Quiescent

\* an echo of a link made by the first pass has been delivered and answered
\* 204, and the system is at rest after that one pass
C25_Witness ==
  /\ http.echo.k >= 1
  /\ http.last.body = EchoBody
  /\ http.codes[http.n] = 204
  /\ http.jobs = 1
  /\ pass.n = 1
  /\ pass.pc = "done"
  /\ links # {}
  /\ Quiescent

(***************************************************************************)
(* The response of a seed request.                                         *)
(***************************************************************************)
\* the groups the request seeded: their list was fetched, so
\* ensureSeedForGroup was called for them and returned
SeededGroups(run) == {g \in LabelSet : run.fetch[g] = "fulfilled"}

\* C27 (seed summary status): the response reports for every group and
\* overall one of success, partial_success, failed; the overall status is
\* success when all four groups were seeded, partial_success when at least
\* one but not all were, failed when none was; and summary.failedGroups is
\* 4 minus summary.successfulGroups.
C27_SummaryStatus ==
  seed.pc = "done" =>
    LET n == Cardinality(SeededGroups(seed))
        r == seed.response
    IN  /\ r.status \in {"success", "partial_success", "failed"}
        /\ \A g \in LabelSet : r.groups[g] \in {"success", "partial_success", "failed"}
        /\ \A g \in LabelSet : r.groups[g] = "success" <=> g \in SeededGroups(seed)
        /\ r.status = "success" <=> n = 4
        /\ r.status = "partial_success" <=> (n > 0 /\ n < 4)
        /\ r.status = "failed" <=> n = 0
        /\ r.code = 200 =>
             /\ r.successfulGroups = n
             /\ r.failedGroups = 4 - r.successfulGroups
        /\ r.code = 424 <=> n = 0

\* a request has been answered partial_success: the listing of one group
\* failed and the other three were seeded
C27_Witness ==
  /\ seed.pc = "done"
  /\ seed.response.code = 200
  /\ seed.response.status = "partial_success"
  /\ seed.response.successfulGroups = 3
  /\ seed.response.failedGroups = 1

\* C28 (failed creations are reported as partial success): a response for a
\* request in which at least one createRelease call failed has the overall
\* status partial_success, not success, and a failedCreations list naming
\* each failed period with its error.
C28_AsStated ==
  (seed.pc = "done" /\ seed.response.code = 200
     /\ \E i \in 1..Len(seed.attempts) : ~seed.attempts[i].ok) =>
    /\ seed.response.status = "partial_success"
    /\ Len(seed.response.failedList) =
         Cardinality({i \in 1..Len(seed.attempts) : ~seed.attempts[i].ok})
    /\ \A i \in 1..Len(seed.attempts) :
         ~seed.attempts[i].ok =>
            \E j \in 1..Len(seed.response.failedList) :
              /\ seed.response.failedList[j].name = seed.attempts[i].name
              /\ seed.response.failedList[j].error # ""

(***************************************************************************)
(* Properties of the weekly and the monthly generator.                     *)
(***************************************************************************)
StartDays(periods) == [i \in 1..Len(periods) |-> periods[i].start.day]

\* C29 (weekly generator): every weekly period starts on a Monday and ends
\* on the Sunday six days later; the first period's Monday is the Monday on
\* or before rangeStart and the last period's Monday is the last Monday not
\* after rangeEnd; for 2026-01-01 to 2026-01-31 the periods start on
\* 2025-12-29, 2026-01-05, 2026-01-12, 2026-01-19 and 2026-01-26.
C29_WeeklyGenerator ==
  gen.kind = "weekly" =>
    LET ps == gen.periods
        n == Len(ps)
    IN  /\ n >= 1
        /\ \A i \in 1..n :
             /\ getUTCDay(ps[i].start) = 1
             /\ ps[i].start.ms = 0
             /\ getUTCDay(ps[i].end) = 0
             /\ ps[i].end = [day |-> ps[i].start.day + 6, ms |-> 0]
        /\ \A i \in 1..(n - 1) : ps[i + 1].start.day = ps[i].start.day + 7
        /\ ps[1].start.day <= gen.rangeStart.day
        /\ gen.rangeStart.day < ps[1].start.day + 7
        /\ ps[n].start.day <= gen.rangeEnd.day
        /\ gen.rangeEnd.day < ps[n].start.day + 7
        /\ (/\ gen.rangeStart.day = DaysFromCivil(2026, 0, 1)
            /\ gen.rangeEnd.day = DaysFromCivil(2026, 0, 31)) =>
             StartDays(ps) = << DaysFromCivil(2025, 11, 29), DaysFromCivil(2026, 0, 5),
                                DaysFromCivil(2026, 0, 12), DaysFromCivil(2026, 0, 19),
                                DaysFromCivil(2026, 0, 26) >>

\* the weekly periods of January 2026 have been generated: five of them, the
\* first starting in December
C29_Witness ==
  /\ gen.kind = "weekly"
  /\ gen.rangeStart.day = DaysFromCivil(2026, 0, 1)
  /\ gen.rangeEnd.day = DaysFromCivil(2026, 0, 31)
  /\ Len(gen.periods) = 5
  /\ getUTCMonth(gen.periods[1].start) = 11

\* Gregorian leap years
IsLeapYear(y) == (y % 4 = 0 /\ y % 100 # 0) \/ y % 400 = 0

\* months counted from year 0
MonthNumber(d) == getUTCFullYear(d) * 12 + getUTCMonth(d)

\* C30 (monthly generator): exactly one period per calendar month from the
\* month of rangeStart through the month of rangeEnd, each starting on the
\* 1st and ending on the last day of that month; February ends on the 29th
\* in a leap year and on the 28th otherwise.
C30_MonthlyGenerator ==
  gen.kind = "monthly" =>
    LET ps == gen.periods
        n == Len(ps)
    IN  /\ n = MonthNumber(gen.rangeEnd) - MonthNumber(gen.rangeStart) + 1
        /\ \A i \in 1..n :
             /\ MonthNumber(ps[i].start) = MonthNumber(gen.rangeStart) + i - 1
             /\ getUTCDate(ps[i].start) = 1
             /\ ps[i].start.ms = 0
             /\ MonthNumber(ps[i].end) = MonthNumber(ps[i].start)
             /\ ps[i].end.ms = 0
             /\ getUTCDate([day |-> ps[i].end.day + 1, ms |-> 0]) = 1
             /\ getUTCMonth(ps[i].start) = 1 =>
                  getUTCDate(ps[i].end) =
                    IF IsLeapYear(getUTCFullYear(ps[i].start)) THEN 29 ELSE 28

\* the months from January 2024 to March 2025 have been generated, with a
\* February of 29 days and one of 28
C30_Witness ==
  /\ gen.kind = "monthly"
  /\ Len(gen.periods) = 15
  /\ \E i, j \in 1..Len(gen.periods) :
       /\ getUTCMonth(gen.periods[i].start) = 1 /\ getUTCDate(gen.periods[i].end) = 29
       /\ getUTCMonth(gen.periods[j].start) = 1 /\ getUTCDate(gen.periods[j].end) = 28

(***************************************************************************)
(* Properties of the quarterly and the yearly generator.                   *)
(***************************************************************************)
\* the day after a period's last day
DayAfter(p) == [day |-> p.end.day + 1, ms |-> 0]

\* C31 (quarterly generator): for every anchor month 1..12 and every range,
\* each period starts on the 1st of a month congruent to the anchor modulo 3
\* and spans exactly three calendar months; the first period is the quarter
\* containing rangeStart and the last the quarter containing rangeEnd; a
\* period is named Q<i> <year of its start> with
\* i = floor(((startMonth - anchor) mod 12) / 3) + 1, which is in 1..4.
C31_QuarterlyGenerator ==
  (gen.kind = "quarterly" /\ gen.anchor \in 1..12) =>
    LET ps == gen.periods
        n == Len(ps)
        anchor == gen.anchor - 1
    IN  /\ n >= 1
        /\ \A i \in 1..n :
             LET startMonth == getUTCMonth(ps[i].start)
                 index == (((startMonth - anchor) % 12) \div 3) + 1
             IN  /\ getUTCDate(ps[i].start) = 1
                 /\ ps[i].start.ms = 0
                 /\ (startMonth - anchor) % 3 = 0
                 /\ ps[i].end.ms = 0
                 /\ getUTCDate(DayAfter(ps[i])) = 1
                 /\ MonthNumber(DayAfter(ps[i])) = MonthNumber(ps[i].start) + 3
                 /\ index \in 1..4
                 /\ ps[i].name = <<"Q", index, getUTCFullYear(ps[i].start)>>
        /\ MonthNumber(ps[1].start) <= MonthNumber(gen.rangeStart)
        /\ MonthNumber(gen.rangeStart) < MonthNumber(ps[1].start) + 3
        /\ MonthNumber(ps[n].start) <= MonthNumber(gen.rangeEnd)
        /\ MonthNumber(gen.rangeEnd) < MonthNumber(ps[n].start) + 3

\* quarters anchored in November for a range that starts in January: the
\* first quarter began in November of the year before and is Q1 of that year
C31_Witness ==
  /\ gen.kind = "quarterly"
  /\ gen.anchor = 11
  /\ getUTCMonth(gen.rangeStart) = 0
  /\ Len(gen.periods) >= 2
  /\ gen.periods[1].name = <<"Q", 1, getUTCFullYear(gen.rangeStart) - 1>>
  /\ gen.periods[2].name = <<"Q", 2, getUTCFullYear(gen.rangeStart)>>

\* the quarters of the same range under the other of the two anchors 1 and 8
OtherAnchorPeriods ==
  buildQuarterlyPeriods(gen.rangeStart, gen.rangeEnd, 9 - gen.anchor)

\* the Q index carried by a quarterly period's name
QIndex(p) == p.name[2]

\* periods p and q have both boundaries k months apart
ShiftedBy(p, q, k) ==
  /\ getUTCDate(p.start) = getUTCDate(q.start)
  /\ MonthNumber(p.start) = MonthNumber(q.start) + k
  /\ getUTCDate(DayAfter(p)) = getUTCDate(DayAfter(q))
  /\ MonthNumber(DayAfter(p)) = MonthNumber(DayAfter(q)) + k

\* C32 (quarter anchor invariance): over one range, the quarters generated
\* with anchor month 8 and those generated with anchor month 1 have their
\* boundaries one fixed number of months apart for all periods (position by
\* position), and every quarter index in both results is in 1..4.
C32_AnchorInvariance ==
  (gen.kind = "quarterly" /\ gen.anchor \in {1, 8}) =>
    LET mine == gen.periods
        other == OtherAnchorPeriods
        common == IF Len(mine) < Len(other) THEN Len(mine) ELSE Len(other)
    IN  /\ common >= 1
        /\ Len(mine) - Len(other) \in {-1, 0, 1}
        /\ \E k \in -2..2 :
             \A i \in 1..common : ShiftedBy(mine[i], other[i], k)
        /\ \A i \in 1..Len(mine) : QIndex(mine[i]) \in 1..4
        /\ \A i \in 1..Len(other) : QIndex(other[i]) \in 1..4

\* anchor 8 over a range that starts in January and ends in a February: its
\* quarters begin two months before those of anchor 1 and there is one more
C32_Witness ==
  /\ gen.kind = "quarterly"
  /\ gen.anchor = 8
  /\ Len(gen.periods) = Len(OtherAnchorPeriods) + 1
  /\ Len(OtherAnchorPeriods) >= 2
  /\ \A i \in 1..Len(OtherAnchorPeriods) :
       ShiftedBy(gen.periods[i], OtherAnchorPeriods[i], -2)

\* C33 (yearly generator): exactly one period per calendar year from the year
\* of rangeStart through the year of rangeEnd inclusive, each from January 1
\* to December 31 of that year and named by the year; the period of a leap
\* year covers 366 days and that of any other year 365 days.
C33_YearlyGenerator ==
  gen.kind = "yearly" =>
    LET ps == gen.periods
        first == getUTCFullYear(gen.rangeStart)
        last == getUTCFullYear(gen.rangeEnd)
    IN  /\ Len(ps) = last - first + 1
        /\ \A i \in 1..Len(ps) :
             LET year == first + i - 1
             IN  /\ ps[i].name = <<"year", year>>
                 /\ toYMDUTC(ps[i].start) = <<year, 1, 1>>
                 /\ toYMDUTC(ps[i].end) = <<year, 12, 31>>
                 /\ ps[i].start.ms = 0
                 /\ ps[i].end.ms = 0
                 /\ ps[i].end.day - ps[i].start.day + 1
                      = IF IsLeapYear(year) THEN 366 ELSE 365

\* a range from the last week of 2023 into 2024: a common year of 365 days
\* followed by a leap year of 366 days
C33_Witness ==
  /\ gen.kind = "yearly"
  /\ Len(gen.periods) = 2
  /\ gen.periods[1].name = <<"year", 2023>>
  /\ gen.periods[1].end.day - gen.periods[1].start.day = 364
  /\ gen.periods[2].name = <<"year", 2024>>
  /\ gen.periods[2].end.day - gen.periods[2].start.day = 365

(***************************************************************************)
(* Horizon harness: the clock is read and the seed handler computes its    *)
(* ranges and period lists from it, with the horizons of the source (the   *)
(* seeding specification above shortens them to keep its store small).     *)
(***************************************************************************)
\* first day of the clock values tried (2024-02-01) and their number
NowFirstDay == 19754
NumNows == 60

HorizonNows ==
  [day : {NowFirstDay + k : k \in 0..(NumNows - 1)}, ms : TimesOfDay]

InitHorizon ==
  /\ probe = probeIdle
  /\ SeedIdle
  /\ gen \in {[kind |-> "clock", now |-> now] : now \in HorizonNows}

HorizonRequest ==
  /\ gen.kind = "clock"
  /\ UNCHANGED nonGenVars
  /\ gen' = [kind |-> "built", now |-> gen.now,
             rangeStart |-> seedRangeStart(gen.now),
             rangeEnd |-> seedRangeEnd(gen.now, 1),
             rangeEnd5Years |-> seedRangeEnd(gen.now, 5),
             periods |-> seedBuildPeriods(gen.now)]

NextHorizon == HorizonRequest

SpecHorizon == InitHorizon /\ [][NextHorizon]_vars

\* the clock read on February 29
OnLeapDay(now) == getUTCMonth(now) = 1 /\ getUTCDate(now) = 29

\* the day key of now's month and date in the year `years` later; February 29
\* of a year that has none is March 1
LaterDate(now, years) ==
  IF OnLeapDay(now) /\ ~IsLeapYear(getUTCFullYear(now) + years)
  THEN <<getUTCFullYear(now) + years, 3, 1>>
  ELSE <<getUTCFullYear(now) + years, getUTCMonth(now) + 1, getUTCDate(now)>>

\* the generated lists run from the period holding today to the period
\* holding the range's last day
HorizonLists ==
  LET w == gen.periods.weekly
      mo == gen.periods.monthly
      q == gen.periods.quarterly
      y == gen.periods.yearly
      year == getUTCFullYear(gen.now)
  IN  /\ Len(w) >= 1 /\ Len(mo) >= 1 /\ Len(q) >= 1
      /\ w[1].start.day <= gen.now.day /\ gen.now.day <= w[1].end.day
      /\ w[Len(w)].start.day <= gen.rangeEnd.day
      /\ gen.rangeEnd.day <= w[Len(w)].end.day
      /\ \A i \in 1..(Len(w) - 1) : w[i + 1].start.day = w[i].start.day + 7
      /\ MonthNumber(mo[1].start) = MonthNumber(gen.now)
      /\ MonthNumber(mo[Len(mo)].start) = MonthNumber(gen.rangeEnd)
      /\ Len(mo) = MonthNumber(gen.rangeEnd) - MonthNumber(gen.now) + 1
      /\ q[1].start.day <= gen.now.day /\ gen.now.day <= q[1].end.day
      /\ q[Len(q)].start.day <= gen.rangeEnd.day
      /\ gen.rangeEnd.day <= q[Len(q)].end.day
      /\ \A i \in 1..(Len(q) - 1) : q[i + 1].start.day = q[i].end.day + 1
      /\ [i \in 1..Len(y) |-> y[i].name]
           = [i \in 1..6 |-> <<"year", year + i - 1>>]

\* C34 as stated: the ranges end on the same calendar date one and five
\* years later.
C34_AsStated ==
  gen.kind = "built" =>
    /\ gen.rangeStart = [day |-> gen.now.day, ms |-> 0]
    /\ toYMDUTC(gen.rangeEnd)
         = <<getUTCFullYear(gen.now) + 1, getUTCMonth(gen.now) + 1, getUTCDate(gen.now)>>
    /\ toYMDUTC(gen.rangeEnd5Years)
         = <<getUTCFullYear(gen.now) + 5, getUTCMonth(gen.now) + 1, getUTCDate(gen.now)>>
    /\ HorizonLists

\* C34 (seeding horizon): a seed request at time now generates weekly,
\* monthly and quarterly periods for the range from the UTC start of today
\* to the end of the same calendar date one year later, and yearly periods
\* for the range from today to the same calendar date five years later (the
\* calendar years now.year through now.year + 5); when today is February 29
\* and the later year has no such date, the range ends on its March 1.
C34_SeedingHorizon ==
  gen.kind = "built" =>
    /\ gen.rangeStart = [day |-> gen.now.day, ms |-> 0]
    /\ toYMDUTC(gen.rangeEnd) = LaterDate(gen.now, 1)
    /\ gen.rangeEnd.ms = MsPerDay - 1
    /\ toYMDUTC(gen.rangeEnd5Years) = LaterDate(gen.now, 5)
    /\ gen.rangeEnd5Years.ms = MsPerDay - 1
    /\ HorizonLists

\* a request on 2024-02-29: the year ahead ends on 2025-03-01 and the
\* monthly list has fourteen months, February 2024 to March 2025
C34_Witness ==
  /\ gen.kind = "built"
  /\ OnLeapDay(gen.now)
  /\ toYMDUTC(gen.rangeEnd) = <<2025, 3, 1>>
  /\ Len(gen.periods.monthly) = 14
  /\ Len(gen.periods.yearly) = 6

(***************************************************************************)
(* Granularities without a configured group id.                            *)
(***************************************************************************)
\* the granularities without a configured group id
NoId == {g \in LabelSet : RG_IDS[g] = ""}

\* the pass makes no store call for the granularities without an id and no
\* error comes from them; a granularity is left out of a finished pass only
\* when getFeature failed or an earlier granularity threw
PassSkipsMissingId ==
  pass.pc # "idle" =>
    /\ \A g \in NoId :
         /\ \A i \in 1..Len(pass.calls) : pass.calls[i].label # g
         /\ \A i \in 1..Len(pass.fetches) : pass.fetches[i].label # g
         /\ pass.outcome[g] \in {"pending", "noEnd", "noId"}
         /\ pass.matched[g] = NoRelease
    /\ pass.pc \notin {"start", "done"} => GroupLabels[pass.gi] \notin NoId
    /\ pass.pc = "done" =>
         \A h \in LabelSet :
           pass.outcome[h] = "pending" =>
             \/ pass.error = "GET /entities failed"
             \/ \E l \in LabelSet : /\ LabelIndex(l) < LabelIndex(h)
                                    /\ pass.outcome[l] = "threw"
    /\ (pass.pc = "done" /\ pass.error = "") =>
         \A h \in LabelSet : pass.outcome[h] = "noEnd" \/ Reconciled(h)

\* the seed request makes no listing and no createRelease call for the groups
\* without an id and reports no error for them; every other group whose list
\* was fetched is seeded
SeedSkipsMissingId ==
  SeedStarted =>
    /\ \A g \in NoId :
         /\ seed.answer[g] = "none"
         /\ seed.fetch[g] = "fulfilled"
         /\ seed.error[g] = ""
         /\ AttemptsFor(seed, g) = {}
    /\ (seed.pc = "done" /\ NoId # {}) =>
         /\ seed.response.code = 200
         /\ \A g \in NoId : seed.status[g] = "success"
         /\ \A h \in LabelSet \ NoId :
              seed.fetch[h] = "fulfilled" =>
                 /\ seed.status[h] = "success"
                 /\ GroupSeeded(seed, h)

PhaseRank(label) ==
  CASE label = "weekly" -> 1
    [] label = "monthly" -> 2
    [] label = "quarterly" -> 3
    [] label = "yearly" -> 4

\* the four listings of the request have settled
FetchesSettled ==
  \A g \in LabelSet : seed.fetch[g] \in {"fulfilled", "rejected"}

\* a createRelease call of the request is awaited
CreateInFlight == seed.pc = "creating"

\* While the listings are awaited no createRelease call has been made or is
\* awaited; the calls made so far are in the order of the groups, and the call
\* awaited is for a group not before any of them.
SeedPhases ==
  /\ seed.pc = "fetching" =>
       /\ seed.attempts = <<>>
       /\ \A g \in LabelSet : seed.fetch[g] = "pending"
  /\ (seed.pc \in {"creating", "done"} /\ seed.attempts # <<>>) => FetchesSettled
  /\ CreateInFlight =>
       /\ FetchesSettled
       /\ \A i \in 1..Len(seed.attempts) :
            PhaseRank(seed.attempts[i].label) <= seed.gi
       /\ PhaseRank(GroupLabels[seed.gi]) = seed.gi
  /\ SeedStarted =>
       \A i, j \in 1..Len(seed.attempts) :
         i < j => PhaseRank(seed.attempts[i].label) <= PhaseRank(seed.attempts[j].label)

\* A createRelease call settles only when it is the one awaited, one at a
\* time, and the next one is issued in the same step or not at all: the
\* record of calls grows by the call that was in flight and by nothing else.
OneCreateAtATime ==
  (seed.pc # "idle" /\ seed'.pc # "fetching" /\ seed'.attempts # seed.attempts) =>
    /\ CreateInFlight
    /\ Len(seed'.attempts) = Len(seed.attempts) + 1
    /\ SubSeq(seed'.attempts, 1, Len(seed.attempts)) = seed.attempts
    /\ LET a == seed'.attempts[Len(seed'.attempts)]
           p == SeedPeriods(seed, GroupLabels[seed.gi])[seed.pi]
       IN  /\ a.label = GroupLabels[seed.gi]
           /\ a.name = p.name /\ a.start = p.start /\ a.end = p.end

\* C36 (seeding phases): in one seed request no createRelease call is issued
\* before all four catalog fetches have settled, the groups are then seeded
\* strictly one after another in the order weekly, monthly, quarterly,
\* yearly, and at no time are two createRelease calls of the same request in
\* flight.
C36_SeedingPhases == []SeedPhases /\ [][OneCreateAtATime]_vars

\* an answered request that made createRelease calls in at least three groups,
\* one of them failing
C36_Witness ==
  /\ seed.pc = "done"
  /\ seed.response.code = 200
  /\ Cardinality({seed.attempts[i].label : i \in 1..Len(seed.attempts)}) >= 3
  /\ \E i \in 1..Len(seed.attempts) : ~seed.attempts[i].ok

(***************************************************************************)
(* Names of the weekly periods.                                            *)
(***************************************************************************)
\* the Mondays of the month of date d, from the 1st up to and including d
MondaysUpTo(d) ==
  {k \in 0..(getUTCDate(d) - 1) : getUTCDay([day |-> d.day - k, ms |-> 0]) = 1}

\* C37 (weekly names): the week-of-month index in a weekly period's name
\* counts the Mondays of the period's month up to and including the period's
\* Monday, is always in 1..5, and no two periods of one generation call get
\* the same name.
C37_WeeklyNames ==
  gen.kind = "weekly" =>
    LET ps == gen.periods
    IN  /\ \A i \in 1..Len(ps) :
             /\ ps[i].name[1] = "week"
             /\ ps[i].name[2] = getUTCMonth(ps[i].start)
             /\ ps[i].name[3] = Cardinality(MondaysUpTo(ps[i].start))
             /\ ps[i].name[3] \in 1..5
             /\ ps[i].name[4] = getUTCFullYear(ps[i].start)
        /\ \A i, j \in 1..Len(ps) : i # j => ps[i].name # ps[j].name

\* a generation call that yields a fifth week of a month and a first week of
\* the next one
C37_Witness ==
  /\ gen.kind = "weekly"
  /\ \E i \in 1..(Len(gen.periods) - 1) :
       /\ gen.periods[i].name[3] = 5
       /\ gen.periods[i + 1].name[3] = 1

(***************************************************************************)
(* Matching against a catalog that holds exactly the generated periods.    *)
(***************************************************************************)
\* the releases of the list whose closed day interval contains the date
Containing(d, releases) ==
  {i \in 1..Len(releases) : isWithinClosedDay(d, releases[i].start, releases[i].end)}

\* the ranges tried, from the start of a day to the end of a day
MatchStarts == 8
MatchSpanSteps == 5

CatalogRanges ==
  {[rangeStart |-> [day |-> FirstStartDay + k * StartStride, ms |-> 0],
    rangeEnd |-> [day |-> FirstStartDay + k * StartStride + j * SpanStride,
                  ms |-> MsPerDay - 1]] :
     k \in 0..(MatchStarts - 1), j \in 0..MatchSpanSteps}

\* the instants of the days from rangeStart to rangeEnd
RangeInstants ==
  [day : gen.rangeStart.day..gen.rangeEnd.day, ms : TimesOfDay]

\* the list with its first element moved to the end
Rotate(q) == IF q = <<>> THEN q ELSE Append(Tail(q), Head(q))

\* the orders in which the store may list the catalog
CatalogOrders == {"oldest first", "newest first", "rotated"}

Ordered(releases, order) ==
  CASE order = "oldest first" -> releases
    [] order = "newest first" -> Reverse(releases)
    [] order = "rotated" -> Rotate(releases)

\* the release the matcher picks from the list, None when it picks none
Picked(d, releases) ==
  IF findTarget(d, releases) = 0 THEN None ELSE releases[findTarget(d, releases)]

InitCatalog ==
  /\ probe = probeIdle
  /\ SeedIdle
  /\ gen \in {[kind |-> "none", rangeStart |-> r.rangeStart, rangeEnd |-> r.rangeEnd,
               anchor |-> 1, periods |-> <<>>] : r \in CatalogRanges}

\* the matcher is run for a feature end within the range against the generated
\* periods, listed in one of the orders
MatchDay ==
  /\ gen.kind \in {"weekly", "monthly", "quarterly", "yearly"}
  /\ probe = probeIdle
  /\ \E d \in RangeInstants, order \in CatalogOrders :
       probe' = [op |-> "catalog match", d |-> d, order |-> order,
                 result |-> Picked(d, Ordered(gen.periods, order))]
  /\ UNCHANGED nonProbeVars

NextCatalog == GenWeekly \/ GenMonthly \/ GenQuarterly \/ GenYearly \/ MatchDay

SpecCatalog == InitCatalog /\ [][NextCatalog]_vars

\* C38 (unique match on a seeded catalog): for each granularity, when the
\* catalog holds exactly the periods generated for a range, every day d with
\* rangeStart <= d <= rangeEnd is contained in the closed day interval of
\* exactly one release, so the matcher's result does not depend on the order
\* of the catalog.
C38_UniqueMatch ==
  probe.op = "catalog match" =>
    /\ Cardinality(Containing(probe.d, gen.periods)) = 1
    /\ probe.result # None
    /\ \A i \in Containing(probe.d, gen.periods) : probe.result = gen.periods[i]

\* the last day of a range of at least three periods, matched against the
\* catalog listed newest first: the last period is found
C38_Witness ==
  /\ probe.op = "catalog match"
  /\ probe.order = "newest first"
  /\ Len(gen.periods) >= 3
  /\ probe.d.day = gen.rangeEnd.day
  /\ probe.result = gen.periods[Len(gen.periods)]

(***************************************************************************)
(* Errors during the processing of a webhook.                              *)
(***************************************************************************)
\* the places a pass can be at
PassPlaces == {"idle", "start", "listing", "relsGet", "innerList", "deleting", "posting", "done"}

\* An error that leaves a granularity, or the feature fetch, ends the pass
\* with the error logged; a failed listing of the catalog is caught in the
\* granularity, which is skipped.
ErrorsCaught ==
  pass.pc # "idle" =>
    /\ pass.pc \in PassPlaces
    /\ pass.error # "" =>
         /\ pass.pc = "done"
         /\ \/ /\ pass.error = "GET /entities failed"
               /\ \A l \in LabelSet : pass.outcome[l] = "pending"
               /\ pass.calls = <<>> /\ pass.fetches = <<>>
            \/ Cardinality({l \in LabelSet : pass.outcome[l] = "threw"}) = 1
    /\ pass.error = "" => \A l \in LabelSet : pass.outcome[l] # "threw"
    /\ \A l \in LabelSet :
         (l \in pass.listFailed /\ pass.outcome[l] # "threw") => pass.outcome[l] = "skipped"

\* A pass that has ended does nothing more, and the pass of the next webhook
\* starts from the feature and the links of the store with nothing of the pass
\* before it: no cached list, no outcome, no error.
NextPassUntouched ==
  /\ pass.pc = "done" => (pass' = pass \/ pass'.n = pass.n + 1)
  /\ (pass.pc # "idle" /\ pass'.n # pass.n) =>
       /\ pass.pc = "done"
       /\ pass'.n = pass.n + 1
       /\ pass'.before = links
       /\ pass'.calls = <<>>
       /\ pass'.listFailed = {}
       /\ pass'.cached = {}
       /\ pass'.error \in {"", "GET /entities failed"}
       /\ \A l \in LabelSet : pass'.outcome[l] \in {"pending", "noEnd", "noId"}
       /\ links' = links /\ catalog' = catalog

\* C39 (webhook processing failures are contained): every error raised
\* during the asynchronous reconciliation of one webhook (feature fetch,
\* catalog fetch, assignment) is caught inside that webhook's processing,
\* which then terminates, and never affects the response to or the processing
\* of any other webhook.
C39_FailuresContained == []ErrorsCaught /\ [][NextPassUntouched]_vars

\* the first pass met a failing store call; the second pass, for the next
\* webhook, met none and ended having assigned a release
C39_Witness ==
  /\ pass.pc = "done"
  /\ pass.n = 2
  /\ faults >= 1
  /\ pass.error = "" /\ pass.listFailed = {}
  /\ \E l \in LabelSet : pass.outcome[l] = "assigned"

====
